---- MODULE Spec2Model ----
(***************************************************************************)
(* A model of the hugr-llvm lowering engine: the sum encoder (sum.rs), the *)
(* extension registry (custom.rs), and the region emitters (emit/ops.rs,   *)
(* emit/ops/cfg.rs).  Emission builds a small SSA program (basic blocks of *)
(* instructions over registers and stack slots); the emitted program is    *)
(* then executed instruction by instruction, so that properties of the     *)
(* values flowing through the emitted code can be checked.                 *)
(***************************************************************************)
EXTENDS Integers, Sequences, FiniteSets, TLC

VARIABLES
    cx,        \* the function context: blocks, builder position, registers, slots
    phase,     \* "emit", "run", "done": where the harness stands
    pc,        \* the executing program's position: [bb, ip]
    env,       \* register file of the executing program (reg -> value)
    mem,       \* stack slots of the executing program (slot -> value)
    visited,   \* sequence of basic blocks the execution has entered
    st,        \* the LLVMSumType under test (Result of try_new), or NoValue
    tagged,    \* record of the last build_tag call
    untagged,  \* record of the last build_untag call
    gottag,    \* record of the last build_get_tag call
    ops,       \* CodegenExtensionsBuilder.ops: key -> handler
    types,     \* CodegenExtensionsBuilder.types: key -> handler
    reglog,    \* history: sequence of registrations performed
    looked,    \* record of the last registry lookup (none after a constant load)
    rmb,       \* the RowMailBox under test (Result of new_row_mail_box)
    rmblog,    \* history: the writes and reads performed on rmb
    lowered,   \* record of the function lowered: the hugr's shape and the Result
    consts,    \* CodegenExtensionsBuilder.consts: constant kind -> handler
    loaded,    \* record of the last emit_load_constant call (none after a lookup)
    mapped,    \* history: the type mappings performed in this compilation
    hugr,      \* the hugr rewritten by inline_constant_functions
    module,    \* the LLVM module: its function declarations, and the requests made
    flat,      \* record of the last FlattenType computation
    builders,  \* two CodegenExtensionsBuilders and the Result of merging them
    closure    \* the DefHookClosure: its hooks, and the last application

irVars  == <<cx, phase, pc, env, mem, visited>>
sumVars == <<st, tagged, untagged, gottag>>
regVars == <<ops, types, consts, reglog, looked, loaded>>
rmbVars == <<rmb, rmblog>>
emitVars == <<lowered>>
utilVars == <<mapped, hugr, module, flat, builders, closure>>
outsideSum == <<regVars, rmbVars, emitVars, utilVars>>
outsideReg == <<irVars, sumVars, rmbVars, emitVars, utilVars>>
outsideRmb == <<sumVars, regVars, emitVars, utilVars>>
outsideEmit == <<sumVars, regVars, rmbVars, utilVars>>
vars    == <<cx, phase, pc, env, mem, visited, st, tagged, untagged, gottag,
             ops, types, reglog, looked, rmb, rmblog, lowered, consts,
             loaded, mapped, hugr, module, flat, builders, closure>>

-----------------------------------------------------------------------------
(* Bounds *)

MaxVariants == 3
MaxRowLen == 2
MaxVal == 2
MaxRegs == 2
MaxMailboxOps == 3
MaxPass == 1

-----------------------------------------------------------------------------
(* Results.  Every fallible operation returns a record: st is "ok", "err"  *)
(* (an anyhow error returned to the caller) or "panic" (the process        *)
(* aborts); cx is the function context after the operation.                *)

Ok(c, v) == [st |-> "ok", err |-> "", cx |-> c, val |-> v]

Err(c, e) == [st |-> "err", err |-> e, cx |-> c, val |-> <<>>]

Panic(c, e) == [st |-> "panic", err |-> e, cx |-> c, val |-> <<>>]

Fail(r) == [st |-> r.st, err |-> r.err, cx |-> r.cx, val |-> <<>>]

NoValue == [st |-> "none", err |-> "", cx |-> <<>>, val |-> <<>>]

-----------------------------------------------------------------------------
(* LLVM types and values *)

IntTy == [k |-> "i32", fs |-> <<>>]

LeafTy(name) == [k |-> name, fs |-> <<>>]

StructTy(fs) == [k |-> "struct", fs |-> fs]

Poison == -1

Undef == -2

RECURSIVE PoisonOf(_)
PoisonOf(ty) ==
    IF ty.k = "struct" THEN [i \in 1..Len(ty.fs) |-> PoisonOf(ty.fs[i])]
    ELSE Poison

RECURSIVE UndefOf(_)
UndefOf(ty) ==
    IF ty.k = "struct" THEN [i \in 1..Len(ty.fs) |-> UndefOf(ty.fs[i])]
    ELSE Undef

-----------------------------------------------------------------------------
(* Instructions of the emitted program *)

Instr(op, dst, a, b, i, cases) ==
    [op |-> op, dst |-> dst, a |-> a, b |-> b, i |-> i, cases |-> cases]

ExtractValue(dst, agg, idx) == Instr("extractvalue", dst, agg, 0, idx, <<>>)

InsertValue(dst, agg, val, idx) == Instr("insertvalue", dst, agg, val, idx, <<>>)

Store(slot, val) == Instr("store", 0, val, 0, slot, <<>>)

Load(dst, slot) == Instr("load", dst, 0, 0, slot, <<>>)

Br(bb) == Instr("br", 0, 0, 0, bb, <<>>)

Call(dst, func, args) == Instr("call", dst, func, 0, 0, args)

Switch(v, else_bb, cases) == Instr("switch", 0, v, 0, else_bb, cases)

-----------------------------------------------------------------------------
(* The function context and the builder *)

EmptyContext ==
    [blocks |-> << <<>> >>,   \* one entry block
     cur    |-> 1,            \* the builder is positioned at the end of it
     rty    |-> <<>>,         \* type of every register
     consts |-> <<>>,         \* constants: <<register, value>>
     sty    |-> <<>>,         \* type of every stack slot
     wires  |-> <<>>,         \* env: <<node, out port>> -> the wire's slot
     exts   |-> [ops |-> <<>>, types |-> (<<"prelude", "usize">> :> "H1")],
     debug_assertions |-> FALSE,   \* the build profile of the compiler
     log    |-> <<>>]         \* history: what was emitted where

NewReg(c, ty) == [c EXCEPT !.rty = Append(@, ty)]

LastReg(c) == Len(c.rty)

Emit(c, ins) == [c EXCEPT !.blocks[c.cur] = Append(@, ins)]

Constant(c, ty, v) ==
    LET c1 == NewReg(c, ty)
    IN  Ok([c1 EXCEPT !.consts = Append(@, <<LastReg(c1), v>>)], LastReg(c1))

const_int(c, n) == Constant(c, IntTy, n)

get_poison(c, ty) == Constant(c, ty, PoisonOf(ty))

get_undef(c, ty) == Constant(c, ty, UndefOf(ty))

count_fields(ty) == Len(ty.fs)

build_extract_value(c, agg, index) ==
    IF index >= count_fields(c.rty[agg]) THEN Err(c, "ExtractOutOfRange")
    ELSE LET c1 == NewReg(c, c.rty[agg].fs[index + 1])
         IN  Ok(Emit(c1, ExtractValue(LastReg(c1), agg, index)), LastReg(c1))

build_insert_value(c, agg, val, index) ==
    IF index >= count_fields(c.rty[agg]) THEN Err(c, "ExtractOutOfRange")
    ELSE LET c1 == NewReg(c, c.rty[agg])
         IN  Ok(Emit(c1, InsertValue(LastReg(c1), agg, val, index)), LastReg(c1))

IntBinOp(op, dst, lhs, rhs) == Instr(op, dst, lhs, rhs, 0, <<>>)

build_int_add(c, lhs, rhs) ==
    LET c1 == NewReg(c, c.rty[lhs])
    IN  Ok(Emit(c1, IntBinOp("add", LastReg(c1), lhs, rhs)), LastReg(c1))

(* A variant that subtracts the other way round *)
build_int_rsub(c, lhs, rhs) ==
    LET c1 == NewReg(c, c.rty[lhs])
    IN  Ok(Emit(c1, IntBinOp("sub", LastReg(c1), rhs, lhs)), LastReg(c1))

build_int_sub(c, lhs, rhs) ==
    LET c1 == NewReg(c, c.rty[lhs])
    IN  Ok(Emit(c1, IntBinOp("sub", LastReg(c1), lhs, rhs)), LastReg(c1))

build_int_mul(c, lhs, rhs) ==
    LET c1 == NewReg(c, c.rty[lhs])
    IN  Ok(Emit(c1, IntBinOp("mul", LastReg(c1), lhs, rhs)), LastReg(c1))

(* Builder::build_int_neg: LLVM has no neg instruction, it is sub 0, x *)
build_int_neg(c, x) ==
    (CHOOSE y \in {build_int_sub(zero.cx, zero.val, x)
       : zero \in {Constant(c, c.rty[x], 0)}} : TRUE)

Note(c, ev, node, i, bb, regs) ==
    [c EXCEPT !.log = Append(@, [ev |-> ev, node |-> node, i |-> i,
                                 bb |-> bb, regs |-> regs])]

new_basic_block(c) ==
    Ok([c EXCEPT !.blocks = Append(@, <<>>)], Len(c.blocks) + 1)

position_at_end(c, bb) == [c EXCEPT !.cur = bb]

build_unconditional_branch(c, bb) == Ok(Emit(c, Br(bb)), 0)

build_switch(c, v, else_bb, cases) == Ok(Emit(c, Switch(v, else_bb, cases)), 0)

-----------------------------------------------------------------------------
(* Hugr types.  A leaf is a custom (extension) type named by its key       *)
(* <<extension id, type name>>; a sum type is a sequence of rows.          *)

CustomType(key) == [k |-> "Extension", key |-> key, rows |-> <<>>]

SumType(rows) == [k |-> "Sum", key |-> <<>>, rows |-> rows]

usize_t == CustomType(<<"prelude", "usize">>)

(* What a registered type handler returns for a custom type. *)
TypeHandler(h, c) ==
    CASE h = "H1" -> Ok(c, LeafTy("i64"))
      [] h = "H2" -> Ok(c, LeafTy("double"))
      [] OTHER    -> Err(c, "type handler failed")

(* custom.rs: CodegenExtensionsBuilder::llvm_type *)
llvm_type(tymap, typ) ==
    IF typ.key \notin DOMAIN tymap THEN Err(<<>>, "No handler for type")
    ELSE TypeHandler(tymap[typ.key], <<>>)

-----------------------------------------------------------------------------
(* sum.rs: LLVMSumType.  self.ty is the struct type (field 0 of the Rust   *)
(* tuple struct), self.sum the HugrSumType (field 1), a sequence of rows.  *)

num_variants(sum_type) == Len(sum_type)

get_variant_typerow_st(sum_type, tag) ==
    IF tag < num_variants(sum_type) THEN Ok(<<>>, sum_type[tag + 1])
    ELSE Err(<<>>, "Bad variant index")

get_variant_typerow(self, tag) == get_variant_typerow_st(self.sum, tag)

num_fields_off_by_one(self, tag) ==
    (CHOOSE y \in {IF tr.st = "ok"
                   THEN Ok(<<>>, IF Len(tr.val) > 0 THEN Len(tr.val) - 1 ELSE 0)
                   ELSE tr
       : tr \in {get_variant_typerow(self, tag)}} : TRUE)

num_fields(self, tag) ==
    (CHOOSE y \in {IF tr.st = "ok" THEN Ok(<<>>, Len(tr.val)) ELSE tr
       : tr \in {get_variant_typerow(self, tag)}} : TRUE)

sum_type_always_has_tag_field(sum_type) == num_variants(sum_type) >= 1

sum_type_has_tag_field(sum_type) == num_variants(sum_type) >= 2

has_tag_field(self) == sum_type_has_tag_field(self.sum)

get_variant_index_no_tag_offset(self, tag) == tag

get_variant_index(self, tag) == tag + (IF has_tag_field(self) THEN 1 ELSE 0)

get_tag_type(self) == IntTy

RECURSIVE session_llvm_type(_, _)

(* session.llvm_type over the fields of one row, collected into a Result. *)
RECURSIVE llvm_row(_, _)
llvm_row(tymap, tr) ==
    IF tr = <<>> THEN Ok(<<>>, <<>>)
    ELSE (CHOOSE y \in {IF t.st # "ok" THEN t ELSE
             (CHOOSE y \in {IF rest.st # "ok" THEN rest ELSE
                 Ok(<<>>, <<t.val>> \o rest.val)
                : rest \in {llvm_row(tymap, Tail(tr))}} : TRUE)
            : t \in {session_llvm_type(tymap, Head(tr))}} : TRUE)

RECURSIVE llvm_variants(_, _, _)
llvm_variants(tymap, sum_type, i) ==
    IF i >= num_variants(sum_type) THEN Ok(<<>>, <<>>)
    ELSE (CHOOSE y \in {IF tr.st # "ok" THEN tr ELSE
             (CHOOSE y \in {IF row.st # "ok" THEN row ELSE
                 (CHOOSE y \in {IF rest.st # "ok" THEN rest ELSE
                     Ok(<<>>, <<row.val>> \o rest.val)
                    : rest \in {llvm_variants(tymap, sum_type, i + 1)}} : TRUE)
                : row \in {llvm_row(tymap, tr.val)}} : TRUE)
            : tr \in {get_variant_typerow_st(sum_type, i)}} : TRUE)

try_new(tymap, sum_type) ==
    (CHOOSE y \in {IF variants.st # "ok" THEN variants ELSE
        Ok(<<>>, [ty  |-> StructTy((IF sum_type_has_tag_field(sum_type)
                                    THEN <<IntTy>> ELSE <<>>)
                                   \o [i \in 1..Len(variants.val) |->
                                          StructTy(variants.val[i])]),
                  sum |-> sum_type])
       : variants \in {llvm_variants(tymap, sum_type, 0)}} : TRUE)

(* TypingSession::llvm_type and llvm_sum_type (types.rs) *)
llvm_sum_type(tymap, sum_type) == try_new(tymap, sum_type)

session_llvm_type(tymap, t) ==
    CASE t.k = "Extension" -> llvm_type(tymap, t)
      [] t.k = "Sum" ->
            (CHOOSE y \in {IF s.st = "ok" THEN Ok(<<>>, s.val.ty) ELSE s
               : s \in {llvm_sum_type(tymap, t.rows)}} : TRUE)
      [] OTHER -> Err(<<>>, "unsupported type")

build_get_tag(c, self, v) ==
    IF c.rty[v].k # "struct" THEN Err(c, "Not a struct type")
    ELSE IF has_tag_field(self) THEN build_extract_value(c, v, 0)
    ELSE const_int(c, 0)

RECURSIVE extract_fields(_, _, _, _)
extract_fields(c, v, i, acc) ==
    IF i >= count_fields(c.rty[v]) THEN Ok(c, acc)
    ELSE (CHOOSE y \in {IF e.st # "ok" THEN e ELSE
             extract_fields(e.cx, v, i + 1, Append(acc, e.val))
            : e \in {build_extract_value(c, v, i)}} : TRUE)

build_untag(c, self, tag, v, debug_assertions) ==
    IF debug_assertions /\ ~(tag < num_variants(self.sum))
    THEN Panic(c, "debug_assert: tag < num_variants")
    ELSE IF debug_assertions /\ c.rty[v] # self.ty
    THEN Panic(c, "debug_assert: value type")
    ELSE IF c.rty[v].k # "struct" THEN Panic(c, "into_struct_value")
    ELSE (CHOOSE y \in {IF row.st # "ok" THEN row
             ELSE IF row.cx.rty[row.val].k # "struct"
             THEN Panic(row.cx, "into_struct_value")
             ELSE
             (CHOOSE y \in {IF r.st # "ok" THEN r
                 ELSE IF debug_assertions
                         /\ Len(r.val) # num_fields(self, tag).val
                 THEN Panic(r.cx, "debug_assert: num_fields")
                 ELSE r
                : r \in {extract_fields(row.cx, row.val, 0, <<>>)}} : TRUE)
            : row \in {build_extract_value(c, v, get_variant_index(self, tag))}} : TRUE)

RECURSIVE insert_fields_at_zero(_, _, _, _)
insert_fields_at_zero(c, row_v, vs, i) ==
    IF i >= Len(vs) THEN Ok(c, row_v)
    ELSE (CHOOSE y \in {IF r.st # "ok" THEN r ELSE
             insert_fields_at_zero(r.cx, r.val, vs, i + 1)
            : r \in {build_insert_value(c, row_v, vs[i + 1], 0)}} : TRUE)

RECURSIVE insert_fields(_, _, _, _)
insert_fields(c, row_v, vs, i) ==
    IF i >= Len(vs) THEN Ok(c, row_v)
    ELSE (CHOOSE y \in {IF r.st # "ok" THEN r ELSE
             insert_fields(r.cx, r.val, vs, i + 1)
            : r \in {build_insert_value(c, row_v, vs[i + 1], i)}} : TRUE)

build_tag(c, self, tag, vs) ==
    (CHOOSE y \in {IF expected_num_fields.st # "ok"
        THEN Err(c, expected_num_fields.err)
        ELSE IF expected_num_fields.val # Len(vs)
        THEN Err(c, "LLVMSumType::build: wrong number of fields")
        ELSE
        (CHOOSE y \in {IF variant_index >= count_fields(self.ty)
            THEN Err(c, "LLVMSumType::build: no field type at index")
            ELSE IF self.ty.fs[variant_index + 1].k # "struct"
            THEN Err(c, "LLVMSumType::build")
            ELSE
            (CHOOSE y \in {
                (CHOOSE y \in {IF row_v.st # "ok" THEN row_v ELSE
                    (CHOOSE y \in {
                        (CHOOSE y \in {IF sum_v.st # "ok" THEN sum_v ELSE
                            build_insert_value(sum_v.cx, sum_v.val,
                                               row_v.val, variant_index)
                           : sum_v \in {IF has_tag_field(self)
                                        THEN (CHOOSE y \in {
                                                build_insert_value(
                                                    k.cx, sum_p.val, k.val, 0)
                                               : k \in {const_int(sum_p.cx, tag)}} : TRUE)
                                        ELSE sum_p}} : TRUE)
                       : sum_p \in {get_poison(row_v.cx, self.ty)}} : TRUE)
                   : row_v \in {insert_fields(row_u.cx, row_u.val, vs, 0)}} : TRUE)
               : row_u \in {get_undef(c, self.ty.fs[variant_index + 1])}} : TRUE)
           : variant_index \in {get_variant_index(self, tag)}} : TRUE)
       : expected_num_fields \in {num_fields(self, tag)}} : TRUE)

-----------------------------------------------------------------------------
(* Execution of the emitted program (LLVM semantics of the instructions)   *)

ConstRegs(c) == {c.consts[i][1] : i \in 1..Len(c.consts)}

ConstVal(c, r) == LET i == CHOOSE j \in 1..Len(c.consts) : c.consts[j][1] = r
                  IN  c.consts[i][2]

InitEnv(c) == [r \in 1..Len(c.rty) |->
                  IF r \in ConstRegs(c) THEN ConstVal(c, r)
                  ELSE UndefOf(c.rty[r])]

InitMem(c) == [s \in 1..Len(c.sty) |-> UndefOf(c.sty[s])]

(* The values a callee may return for a type. *)
RECURSIVE ValuesOf(_)
RECURSIVE RowValuesOf(_)
ValuesOf(ty) ==
    IF ty.k = "struct" THEN RowValuesOf(ty.fs) ELSE 1..MaxVal

RowValuesOf(fs) ==
    IF fs = <<>> THEN {<<>>}
    ELSE {<<x>> \o r : x \in ValuesOf(Head(fs)), r \in RowValuesOf(Tail(fs))}

SwitchTargets(ins) == {ins.i} \cup {ins.cases[j][2] : j \in 1..Len(ins.cases)}

(* The blocks a switch on value v may branch to; a poison or undef         *)
(* scrutinee is undefined behaviour: any target.                           *)
SwitchDest(ins, v) ==
    IF v < 0 THEN SwitchTargets(ins)
    ELSE IF \E j \in 1..Len(ins.cases) : ins.cases[j][1] = v
    THEN {ins.cases[j][2] : j \in {k \in 1..Len(ins.cases) : ins.cases[k][1] = v}}
    ELSE {ins.i}

(* The integer types: iN has 2^N values.  usize is lowered to i64; the     *)
(* model scales its width down to UsizeWidth bits.                         *)
UsizeWidth == 3

is_int_type(ty) == ty.k \in {"i64", "i32"}

get_bit_width(ty) == IF ty.k = "i64" THEN UsizeWidth ELSE 2 * UsizeWidth

RECURSIVE Pow2(_)
Pow2(n) == IF n = 0 THEN 1 ELSE 2 * Pow2(n - 1)

(* add, sub and mul of LLVM on iN: the result modulo 2^N *)
IntArith(op, x, y, width) ==
    CASE op = "add" -> (x + y) % Pow2(width)
      [] op = "sub" -> (x - y) % Pow2(width)
      [] op = "mul" -> (x * y) % Pow2(width)

Run ==
    /\ phase = "emit"
    /\ phase' = "run"
    /\ pc' = [bb |-> 1, ip |-> 1]
    /\ env' = InitEnv(cx)
    /\ mem' = InitMem(cx)
    /\ visited' = <<1>>
    /\ UNCHANGED cx

Step ==
    /\ phase = "run"
    /\ IF pc.ip > Len(cx.blocks[pc.bb])
       THEN /\ phase' = "done"
            /\ UNCHANGED <<pc, env, mem, visited>>
       ELSE LET ins == cx.blocks[pc.bb][pc.ip]
                next == [pc EXCEPT !.ip = @ + 1]
            IN  /\ phase' = phase
                /\ CASE ins.op = "extractvalue" ->
                           /\ env' = [env EXCEPT ![ins.dst] = env[ins.a][ins.i + 1]]
                           /\ pc' = next
                           /\ UNCHANGED <<mem, visited>>
                     [] ins.op = "insertvalue" ->
                           /\ env' = [env EXCEPT ![ins.dst] =
                                         [env[ins.a] EXCEPT ![ins.i + 1] = env[ins.b]]]
                           /\ pc' = next
                           /\ UNCHANGED <<mem, visited>>
                     [] ins.op = "store" ->
                           /\ mem' = [mem EXCEPT ![ins.i] = env[ins.a]]
                           /\ pc' = next
                           /\ UNCHANGED <<env, visited>>
                     [] ins.op = "load" ->
                           /\ env' = [env EXCEPT ![ins.dst] = mem[ins.i]]
                           /\ pc' = next
                           /\ UNCHANGED <<mem, visited>>
                     [] ins.op = "br" ->
                           /\ pc' = [bb |-> ins.i, ip |-> 1]
                           /\ visited' = Append(visited, ins.i)
                           /\ UNCHANGED <<env, mem>>
                     [] ins.op = "switch" ->
                           \E bb \in SwitchDest(ins, env[ins.a]) :
                               /\ pc' = [bb |-> bb, ip |-> 1]
                               /\ visited' = Append(visited, bb)
                               /\ UNCHANGED <<env, mem>>
                     [] ins.op \in {"add", "sub", "mul"} ->
                           /\ env' = [env EXCEPT ![ins.dst] =
                                         IntArith(ins.op, env[ins.a], env[ins.b],
                                                  get_bit_width(cx.rty[ins.dst]))]
                           /\ pc' = next
                           /\ UNCHANGED <<mem, visited>>
                     [] ins.op = "call" ->
                           /\ IF ins.dst = 0 THEN env' = env
                              ELSE \E v \in ValuesOf(cx.rty[ins.dst]) :
                                       env' = [env EXCEPT ![ins.dst] = v]
                           /\ pc' = next
                           /\ UNCHANGED <<mem, visited>>
    /\ UNCHANGED cx

-----------------------------------------------------------------------------
(* The sum encoder driven through its public operations *)

RECURSIVE SeqsUpTo(_, _)
SeqsUpTo(S, n) ==
    IF n = 0 THEN {<<>>}
    ELSE LET shorter == SeqsUpTo(S, n - 1)
         IN  shorter \cup {Append(q, x) : q \in shorter, x \in S}

Vals == 1..MaxVal

Rows == SeqsUpTo({usize_t}, MaxRowLen)

SumTypes == SeqsUpTo(Rows, MaxVariants)

Tags == 0..MaxVariants

NoCall == [called |-> FALSE, tag |-> 0, args |-> <<>>, vals |-> <<>>,
           st |-> "none", err |-> "", val |-> <<>>]

Recorded(tag, args, vals, r) ==
    [called |-> TRUE, tag |-> tag, args |-> args, vals |-> vals,
     st |-> r.st, err |-> r.err, val |-> r.val]

(* Materialise a row of leaf values as constants of type i64. *)
RECURSIVE Constants(_, _, _)
Constants(c, vals, acc) ==
    IF vals = <<>> THEN Ok(c, acc)
    ELSE (CHOOSE y \in {Constants(k.cx, Tail(vals), Append(acc, k.val))
            : k \in {Constant(c, LeafTy("i64"), Head(vals))}} : TRUE)

SumTryNew ==
    /\ phase = "emit" /\ st.st = "none"
    /\ \E sum_type \in SumTypes : st' = try_new(types, sum_type)
    /\ UNCHANGED <<irVars, tagged, untagged, gottag, outsideSum>>

SumBuildTag ==
    /\ phase = "emit" /\ st.st = "ok" /\ ~tagged.called
    /\ \E tag \in Tags, vals \in SeqsUpTo(Vals, MaxRowLen) :
          LET vs == Constants(cx, vals, <<>>)
              r == build_tag(vs.cx, st.val, tag, vs.val)
          IN  /\ tagged' = Recorded(tag, vs.val, vals, r)
              /\ cx' = r.cx
    /\ UNCHANGED <<phase, pc, env, mem, visited, st, untagged, gottag, outsideSum>>

SumBuildUntag ==
    /\ phase = "emit" /\ tagged.st = "ok" /\ ~untagged.called
    /\ \E tag \in Tags, debug_assertions \in BOOLEAN :
          LET r == build_untag(cx, st.val, tag, tagged.val, debug_assertions)
          IN  /\ untagged' = Recorded(tag, <<tagged.val>>, <<>>, r)
              /\ cx' = r.cx
    /\ UNCHANGED <<phase, pc, env, mem, visited, st, tagged, gottag, outsideSum>>

(* build_get_tag on the value just built, or on an arbitrary (poison)      *)
(* value of the sum's type.                                                *)
SumBuildGetTag ==
    /\ phase = "emit" /\ tagged.st = "ok" /\ ~gottag.called
    /\ \E any \in BOOLEAN :
          LET v == IF any THEN get_poison(cx, st.val.ty) ELSE Ok(cx, tagged.val)
              r == build_get_tag(v.cx, st.val, v.val)
          IN  /\ gottag' = Recorded(0, <<v.val>>, <<>>, r)
              /\ cx' = r.cx
    /\ UNCHANGED <<phase, pc, env, mem, visited, st, tagged, untagged, outsideSum>>

RunSum == Run /\ tagged.st = "ok" /\ UNCHANGED <<sumVars, outsideSum>>

StepSum == Step /\ UNCHANGED <<sumVars, outsideSum>>

InitIR ==
    /\ cx = EmptyContext
    /\ phase = "emit"
    /\ pc = [bb |-> 1, ip |-> 1]
    /\ env = <<>>
    /\ mem = <<>>
    /\ visited = <<>>

InitSumVars ==
    /\ st = NoValue
    /\ tagged = NoCall
    /\ untagged = NoCall
    /\ gottag = NoCall

InitRegVars ==
    /\ ops = <<>>
    /\ types = <<>>
    /\ consts = <<>>
    /\ loaded = NoCall
    /\ reglog = <<>>
    /\ looked = NoCall

InitRmbVars ==
    /\ rmb = NoValue
    /\ rmblog = <<>>

(* Nothing is lowered yet. *)
InitEmitVars ==
    lowered = [kind |-> "none", st |-> "none", err |-> "", rows |-> <<>>, tag |-> 0,
               vals |-> <<>>, rest |-> <<>>, ncases |-> 0, nsucc |-> 0,
               params |-> 0, nouts |-> 0, callee |-> "", pre |-> 0,
               h |-> <<>>, ret |-> <<>>]

(* Nothing is mapped, rewritten, declared or flattened yet. *)
InitUtilVars ==
    /\ mapped = <<>>
    /\ hugr = [nodes |-> <<>>, built |-> 0, st |-> "none", err |-> "", passes |-> 0]
    /\ module = [funcs |-> <<>>, log |-> <<>>]
    /\ flat = [st |-> "none"]
    /\ builders = [self |-> [ops |-> <<>>, types |-> <<>>, consts |-> <<>>,
                             def_hooks |-> <<>>, destructors |-> <<>>],
                   other |-> [ops |-> <<>>, types |-> <<>>, consts |-> <<>>,
                              def_hooks |-> <<>>, destructors |-> <<>>],
                   regs |-> 0, st |-> "none", val |-> <<>>]
    /\ closure = [custom_hooks |-> <<>>, registered |-> <<>>, applied |-> NoCall]

(* The registry of a typing session: the default extensions, which have a *)
(* handler for the leaf type of the fields.                                *)
InitSessionVars ==
    /\ ops = EmptyContext.exts.ops
    /\ types = EmptyContext.exts.types
    /\ consts = <<>>
    /\ loaded = NoCall
    /\ reglog = <<>>
    /\ looked = NoCall

InitSum == InitIR /\ InitSumVars /\ InitRmbVars /\ InitSessionVars /\ InitEmitVars /\ InitUtilVars

NextSum ==
    \/ SumTryNew
    \/ SumBuildTag
    \/ SumBuildUntag
    \/ SumBuildGetTag
    \/ RunSum
    \/ StepSum

SpecSum == InitSum /\ [][NextSum]_vars

-----------------------------------------------------------------------------
(* Claims about the sum encoder *)

RegVals(regs) == [i \in 1..Len(regs) |-> env[regs[i]]]

SameTagUntagged ==
    /\ phase = "done"
    /\ tagged.st = "ok"
    /\ untagged.called
    /\ untagged.tag = tagged.tag

(* C1: for every sum type, variant index i and row of fields of variant    *)
(* i's length, build_untag(i, build_tag(i, fields)) returns exactly fields *)
(* in the same order.                                                      *)
C1_RoundTrip ==
    SameTagUntagged =>
        /\ untagged.st = "ok"
        /\ Len(untagged.val) = Len(tagged.vals)
        /\ RegVals(untagged.val) = tagged.vals

C1_Witness ==
    /\ SameTagUntagged
    /\ tagged.tag = 1
    /\ Len(st.val.sum) = 3
    /\ tagged.vals = <<2, 1>>

GotTagOfBuilt ==
    /\ gottag.called
    /\ tagged.st = "ok"
    /\ gottag.args = <<tagged.val>>

NoInstrDefines(r) ==
    \A b \in 1..Len(cx.blocks) : \A k \in 1..Len(cx.blocks[b]) :
        cx.blocks[b][k].dst # r

(* C2: build_get_tag(build_tag(i, fields)) is i; for a sum type with       *)
(* exactly one variant build_get_tag is the constant 0 for any value, and  *)
(* no instruction reads the value.                                         *)
C2_TagFidelity ==
    /\ (GotTagOfBuilt /\ phase = "done") =>
           (gottag.st = "ok" /\ env[gottag.val] = tagged.tag)
    /\ (gottag.called /\ num_variants(st.val.sum) = 1) =>
           /\ gottag.st = "ok"
           /\ gottag.val \in ConstRegs(cx)
           /\ ConstVal(cx, gottag.val) = 0
           /\ NoInstrDefines(gottag.val)

C2_Witness ==
    /\ GotTagOfBuilt /\ phase = "done"
    /\ tagged.tag = 2
    /\ env[gottag.val] = 2

C2_WitnessSingle ==
    /\ gottag.called /\ num_variants(st.val.sum) = 1
    /\ gottag.args # <<tagged.val>>
    /\ phase = "done"

ShapeErrors == {"LLVMSumType::build: wrong number of fields"}

WrongFieldCount ==
    /\ tagged.called
    /\ tagged.tag < num_variants(st.val.sum)
    /\ Len(tagged.vals) # Len(st.val.sum[tagged.tag + 1])

(* C3: build_tag(tag, fields) fails with a ShapeError whenever len(fields) *)
(* differs from the row length of variant tag, and then no sum value is    *)
(* produced (no instruction is emitted).                                   *)
C3_WrongFieldCountFails ==
    WrongFieldCount =>
        /\ tagged.st = "err"
        /\ tagged.err \in ShapeErrors
        /\ tagged.val = <<>>
        /\ \A b \in 1..Len(cx.blocks) : cx.blocks[b] = <<>>

C3_Witness ==
    /\ WrongFieldCount
    /\ Len(tagged.vals) = 1
    /\ Len(st.val.sum[tagged.tag + 1]) = 2

RowSlot(tymap, row) ==
    StructTy([j \in 1..Len(row) |-> session_llvm_type(tymap, row[j]).val])

(* C4: the layout has a tag slot iff there are at least 2 variants,        *)
(* followed by one row slot per variant in variant order; variant i is at  *)
(* slot i + 1 with a tag slot and at slot i without.                       *)
C4_Layout ==
    st.st = "ok" =>
        LET n == num_variants(st.val.sum)
            fs == st.val.ty.fs
            tagslots == {k \in 1..Len(fs) : fs[k] = IntTy}
        IN  /\ tagslots = (IF n >= 2 THEN {1} ELSE {})
            /\ Len(fs) = n + Cardinality(tagslots)
            /\ \A i \in 0..(n - 1) :
                   /\ get_variant_index(st.val, i) = (IF n >= 2 THEN i + 1 ELSE i)
                   /\ fs[get_variant_index(st.val, i) + 1] =
                          RowSlot(types, st.val.sum[i + 1])
            /\ \A i, j \in 0..(n - 1) :
                   i # j => get_variant_index(st.val, i) # get_variant_index(st.val, j)

C4_Witness ==
    /\ st.st = "ok"
    /\ num_variants(st.val.sum) = 3
    /\ Len(st.val.sum[1]) = 2 /\ Len(st.val.sum[2]) = 0 /\ Len(st.val.sum[3]) = 1

C4_WitnessUntagged ==
    /\ st.st = "ok"
    /\ num_variants(st.val.sum) = 1
    /\ Len(st.val.sum[1]) = 2

-----------------------------------------------------------------------------
(* custom.rs: CodegenExtensionsBuilder, the extension registry *)

ExtensionIds == {"a", "a.b"}

OpNames == {"b", "c"}

TypeNames == {"b", "c"}

Handlers == {"H1", "H2"}

(* The ops of the enum registered at once by add_simple_op. *)
SimpleOps == <<[ext |-> "a.b", name |-> "b"], [ext |-> "a.b", name |-> "c"]>>

(* format!("{ext}.{op}"), also the qualified name returned by op.name() *)
format(ext, op) == ext \o "." \o op

insert_if_absent(m, k, v) == m @@ (k :> v)

(* HashMap::insert: the new value replaces an existing one *)
insert(m, k, v) == (k :> v) @@ m

get(m, k) == IF k \in DOMAIN m THEN Ok(<<>>, m[k]) ELSE Err(<<>>, "None")

Registration(kind, ext, name, h) == [kind |-> kind, ext |-> ext, name |-> name, h |-> h]

add_op(ext, op, handler) ==
    /\ Len(reglog) < MaxRegs
    /\ ops' = insert(ops, format(ext, op), handler)
    /\ reglog' = Append(reglog, Registration("op", ext, op, handler))
    /\ UNCHANGED <<types, consts, looked, loaded>>

RECURSIVE extend(_, _, _)
extend(m, simple_ops, handler) ==
    IF simple_ops = <<>> THEN m
    ELSE extend(insert(m, format(Head(simple_ops).ext, Head(simple_ops).name), handler),
                Tail(simple_ops), handler)

add_simple_op(handler) ==
    /\ Len(reglog) + Len(SimpleOps) <= MaxRegs
    /\ ops' = extend(ops, SimpleOps, handler)
    /\ reglog' = reglog \o [i \in 1..Len(SimpleOps) |->
                      Registration("op", SimpleOps[i].ext, SimpleOps[i].name, handler)]
    /\ UNCHANGED <<types, consts, looked, loaded>>

add_type_by_key(key, handler) ==
    /\ Len(reglog) < MaxRegs
    /\ types' = insert(types, key, handler)
    /\ reglog' = Append(reglog, Registration("type", key[1], key[2], handler))
    /\ UNCHANGED <<ops, consts, looked, loaded>>

add_type(typ, handler) == add_type_by_key(<<typ.key[1], typ.key[2]>>, handler)

Looked(kind, ext, name, r) ==
    [called |-> TRUE, tag |-> 0, args |-> <<kind, ext, name>>,
     vals |-> <<Len(reglog)>>,   \* the number of registrations made before
     st |-> r.st, err |-> r.err, val |-> r.val]

emitter(opmap, name) ==
    (CHOOSE y \in {IF handler.st = "ok" THEN handler ELSE Err(<<>>, "Unknown op")
       : handler \in {get(opmap, name)}} : TRUE)

LookupOp(ext, name) ==
    /\ looked' = Looked("op", ext, name, emitter(ops, format(ext, name)))
    /\ loaded' = NoCall
    /\ UNCHANGED <<ops, types, consts, reglog>>

LookupType(typ) ==
    /\ looked' = Looked("type", typ.key[1], typ.key[2], llvm_type(types, typ))
    /\ loaded' = NoCall
    /\ UNCHANGED <<ops, types, consts, reglog>>

(* The kinds of extension constant: the TypeId of the Rust type *)
ConstKinds == {"ConstUsize", "ConstExternalSymbol"}

(* An extension constant: its kind and its payload *)
Konst(kind, value) == [kind |-> kind, value |-> value]

type_id(konst) == konst.kind

(* The registered closures: the ConstUsize handler builds an integer      *)
(* constant, the ConstExternalSymbol handler loads a global; any handler   *)
(* may fail.                                                               *)
LoadConstHandler_load_constant(h, konst) ==
    CASE h = "H1" -> Ok(<<>>, <<"const_int", konst.value>>)
      [] h = "H2" -> Ok(<<>>, <<"load", konst.value>>)
      [] OTHER    -> Err(<<>>, "Failed to get ConstUsize as IntType")

add_custom_const(kind, handler) ==
    /\ Len(reglog) < MaxRegs
    /\ consts' = insert(consts, kind, handler)
    /\ reglog' = Append(reglog, Registration("const", kind, "", handler))
    /\ UNCHANGED <<ops, types, looked, loaded>>

(* A variant of the lookup that falls back on any registered handler *)
emit_load_constant_try_every(constmap, konst) ==
    IF DOMAIN constmap = {}
    THEN Err(<<>>, "Unknown CustomConst")
    ELSE LoadConstHandler_load_constant(
             constmap[CHOOSE k \in DOMAIN constmap :
                         k = type_id(konst) \/ type_id(konst) \notin DOMAIN constmap],
             konst)

emit_load_constant(constmap, konst) ==
    (CHOOSE y \in {IF handler.st # "ok" THEN Err(<<>>, "Unknown CustomConst")
                   ELSE LoadConstHandler_load_constant(handler.val, konst)
       : handler \in {get(constmap, type_id(konst))}} : TRUE)

LoadConstant(konst) ==
    /\ loaded' = [called |-> TRUE, tag |-> 0, args |-> <<konst>>,
                  vals |-> <<Len(reglog)>>,
                  st |-> emit_load_constant(consts, konst).st,
                  err |-> emit_load_constant(consts, konst).err,
                  val |-> emit_load_constant(consts, konst).val]
    /\ looked' = NoCall
    /\ UNCHANGED <<ops, types, consts, reglog>>

InitReg == InitIR /\ InitSumVars /\ InitRegVars /\ InitRmbVars /\ InitEmitVars /\ InitUtilVars

NextReg ==
    \/ \E ext \in ExtensionIds, op \in OpNames, h \in Handlers :
           add_op(ext, op, h) /\ UNCHANGED outsideReg
    \/ \E h \in Handlers :
           add_simple_op(h) /\ UNCHANGED outsideReg
    \/ \E ext \in ExtensionIds, name \in TypeNames, h \in Handlers :
           add_type(CustomType(<<ext, name>>), h) /\ UNCHANGED outsideReg
    \/ \E ext \in ExtensionIds, op \in OpNames :
           LookupOp(ext, op) /\ UNCHANGED outsideReg
    \/ \E ext \in ExtensionIds, name \in TypeNames :
           LookupType(CustomType(<<ext, name>>)) /\ UNCHANGED outsideReg
    \/ \E kind \in ConstKinds, h \in Handlers \cup {"H0"} :
           add_custom_const(kind, h) /\ UNCHANGED outsideReg
    \/ \E kind \in ConstKinds, value \in Vals :
           LoadConstant(Konst(kind, value)) /\ UNCHANGED outsideReg

SpecReg == InitReg /\ [][NextReg]_vars

(* Claims about the registry *)

(* The registrations under one key that preceded the last lookup. *)
RegsOf(kind, ext, name) ==
    {i \in 1..looked.vals[1] :
        reglog[i].kind = kind /\ reglog[i].ext = ext /\ reglog[i].name = name}

LastOf(S) == CHOOSE i \in S : \A j \in S : j <= i

LookupErrors == {"Unknown op", "No handler for type"}

(* What a lookup that finds handler h returns: the op handler itself, or   *)
(* the type the type handler computes.                                     *)
Found(kind, h) == IF kind = "op" THEN h ELSE TypeHandler(h, <<>>).val

(* C5: a lookup returns the handler most recently registered under the     *)
(* looked-up key, and a LookupError when the key was never registered.     *)
C5_LastWriteWins ==
    looked.called =>
        LET regs == RegsOf(looked.args[1], looked.args[2], looked.args[3])
        IN  IF regs = {}
            THEN looked.st = "err" /\ looked.err \in LookupErrors
            ELSE /\ looked.st = "ok"
                 /\ looked.val = Found(looked.args[1], reglog[LastOf(regs)].h)

C5_Witness ==
    /\ looked.called
    /\ looked.args[1] = "op"
    /\ \E i, j \in RegsOf("op", looked.args[2], looked.args[3]) :
           i < j /\ reglog[i].h = "H1" /\ reglog[j].h = "H2"
    /\ looked.val = "H2"

C5_WitnessUnregistered ==
    /\ looked.called
    /\ Len(reglog) = MaxRegs
    /\ RegsOf(looked.args[1], looked.args[2], looked.args[3]) = {}
    /\ looked.st = "err"

-----------------------------------------------------------------------------
(* The row mailbox (emit/func.rs, emit/func/mailbox.rs): one stack slot    *)
(* per value of the row; write stores a row, read loads it.                *)

new_value_mail_box(c, hugr_type) ==
    (CHOOSE y \in {IF t.st # "ok" THEN Err(c, t.err) ELSE
        Ok([c EXCEPT !.sty = Append(@, t.val)], Len(c.sty) + 1)
       : t \in {session_llvm_type(c.exts.types, hugr_type)}} : TRUE)

RECURSIVE new_row_mail_box(_, _, _)
new_row_mail_box(c, ts, acc) ==
    IF ts = <<>> THEN Ok(c, acc)
    ELSE (CHOOSE y \in {IF mb.st # "ok" THEN mb ELSE
             new_row_mail_box(mb.cx, Tail(ts), Append(acc, mb.val))
            : mb \in {new_value_mail_box(c, Head(ts))}} : TRUE)

new_empty == <<>>

RECURSIVE write_each_first_slot(_, _, _)
write_each_first_slot(c, mailboxes, vs) ==
    IF vs = <<>> THEN Ok(c, <<>>)
    ELSE write_each_first_slot(Emit(c, Store(Head(mailboxes), Head(vs))),
                               mailboxes, Tail(vs))

RECURSIVE write_each(_, _, _)
write_each(c, mailboxes, vs) ==
    IF vs = <<>> THEN Ok(c, <<>>)
    ELSE IF c.rty[Head(vs)] # c.sty[Head(mailboxes)]
    THEN Err(c, "ValueMailBox::write: type mismatch")
    ELSE write_each(Emit(c, Store(Head(mailboxes), Head(vs))), Tail(mailboxes), Tail(vs))

write(c, mailboxes, vs) ==
    IF Len(vs) # Len(mailboxes)
    THEN Err(c, "RowMailBox::write: wrong number of values")
    ELSE write_each(c, mailboxes, vs)

RECURSIVE read_vec(_, _, _)
read_vec(c, mailboxes, acc) ==
    IF mailboxes = <<>> THEN Ok(c, acc)
    ELSE (CHOOSE y \in {read_vec(Emit(c1, Load(LastReg(c1), Head(mailboxes))),
                                 Tail(mailboxes), Append(acc, LastReg(c1)))
            : c1 \in {NewReg(c, c.sty[Head(mailboxes)])}} : TRUE)

(* A promise is the capability to write the mailbox once. *)
promise(mailboxes) == mailboxes

finish(c, p, vs) == write(c, p, vs)

-----------------------------------------------------------------------------
(* The mailbox driven through its operations *)

MailboxOp(op, vals, r) ==
    [op |-> op, vals |-> vals, st |-> r.st, err |-> r.err, val |-> r.val]

RmbNew ==
    /\ phase = "emit" /\ rmb.st = "none"
    /\ \E ts \in Rows :
          LET r == new_row_mail_box(cx, ts, <<>>)
          IN  rmb' = r /\ cx' = r.cx
    /\ UNCHANGED <<phase, pc, env, mem, visited, rmblog, outsideRmb>>

(* The rows written.  A write of another length than the mailbox's fails   *)
(* before it looks at a value, so one row per such length is drawn; a      *)
(* write of the mailbox's length draws every rotation of Vals, so that     *)
(* neighbouring slots hold different values and two writes differ in       *)
(* every slot.                                                             *)
Rotation(v, n) == [k \in 1..n |-> ((v + k - 2) % MaxVal) + 1]

Written(mailboxes) ==
    {Rotation(1, n) : n \in 0..MaxRowLen}
        \cup {Rotation(v, Len(mailboxes)) : v \in Vals}

RmbWrite ==
    /\ phase = "emit" /\ rmb.st = "ok" /\ Len(rmblog) < MaxMailboxOps
    /\ \E vals \in Written(rmb.val) :
          LET vs == Constants(cx, vals, <<>>)
              r == write(vs.cx, rmb.val, vs.val)
          IN  /\ rmblog' = Append(rmblog, MailboxOp("write", vals, r))
              /\ cx' = r.cx
    /\ UNCHANGED <<phase, pc, env, mem, visited, rmb, outsideRmb>>

RmbRead ==
    /\ phase = "emit" /\ rmb.st = "ok" /\ Len(rmblog) < MaxMailboxOps
    /\ LET r == read_vec(cx, rmb.val, <<>>)
       IN  /\ rmblog' = Append(rmblog, MailboxOp("read", <<>>, r))
           /\ cx' = r.cx
    /\ UNCHANGED <<phase, pc, env, mem, visited, rmb, outsideRmb>>

RunRmb == Run /\ rmb.st = "ok" /\ UNCHANGED <<rmbVars, outsideRmb>>

StepRmb == Step /\ UNCHANGED <<rmbVars, outsideRmb>>

InitRmb == InitIR /\ InitSumVars /\ InitSessionVars /\ InitRmbVars /\ InitEmitVars /\ InitUtilVars

NextRmb ==
    \/ RmbNew
    \/ RmbWrite
    \/ RmbRead
    \/ RunRmb
    \/ StepRmb

SpecRmb == InitRmb /\ [][NextRmb]_vars

ReadAfterWrite(k) ==
    /\ k \in 2..Len(rmblog)
    /\ rmblog[k].op = "read"
    /\ rmblog[k - 1].op = "write"
    /\ rmblog[k - 1].st = "ok"
    /\ rmblog[k - 1].vals # <<>>

(* C6: for a non-empty row vs of the mailbox's length, write(vs)           *)
(* immediately followed by read() yields vs; a mailbox of the empty row    *)
(* yields the empty row on read() even when nothing was ever written.      *)
C6_MailboxFidelity ==
    /\ phase = "done" =>
           \A k \in 1..Len(rmblog) :
               ReadAfterWrite(k) =>
                   /\ rmblog[k].st = "ok"
                   /\ RegVals(rmblog[k].val) = rmblog[k - 1].vals
    /\ (rmb.st = "ok" /\ rmb.val = <<>>) =>
           \A k \in 1..Len(rmblog) :
               rmblog[k].op = "read" =>
                   (rmblog[k].st = "ok" /\ rmblog[k].val = <<>>)

C6_Witness ==
    /\ phase = "done"
    /\ Len(rmblog) = 3
    /\ rmblog[1].op = "write" /\ rmblog[1].vals = <<1, 2>>
    /\ ReadAfterWrite(3)
    /\ rmblog[2].vals = <<2, 1>>
    /\ RegVals(rmblog[3].val) = <<2, 1>>

C6_WitnessEmpty ==
    /\ rmb.st = "ok" /\ rmb.val = <<>>
    /\ Len(rmblog) = 1
    /\ rmblog[1].op = "read"
    /\ phase = "done"

-----------------------------------------------------------------------------
(* The hugr: a function from node ids to nodes.  children is the hierarchy *)
(* order (Input and Output first), topo the order in which the Topo walker *)
(* yields the children; ins gives, per input port, the linked output       *)
(* <<node, port>>; outs the type of every output port.                     *)

Node(op) ==
    [op |-> op, children |-> <<>>, topo |-> <<>>, ins |-> <<>>, outs |-> <<>>,
     tag |-> 0, rows |-> <<>>, succ |-> <<>>, params |-> 0, callee |-> 0,
     name |-> ""]

DataflowParents == {"DFG", "FuncDefn", "Case", "DataflowBlock", "TailLoop"}

DataflowChildren == {"Input", "Output", "Tag", "MakeTuple", "UnpackTuple", "DFG",
                     "CustomOp", "LoadConstant", "Call", "CallIndirect",
                     "LoadFunction", "Conditional", "CFG", "TailLoop"}

in_value_types(h, node) ==
    [p \in 1..Len(h[node].ins) |-> h[h[node].ins[p][1]].outs[h[node].ins[p][2] + 1]]

out_value_types(h, node) == h[node].outs

(* get_io: the first two children, when they are the Input and Output *)
get_io(h, node) ==
    IF /\ Len(h[node].children) >= 2
       /\ h[h[node].children[1]].op = "Input"
       /\ h[h[node].children[2]].op = "Output"
    THEN Ok(<<>>, <<h[node].children[1], h[node].children[2]>>)
    ELSE Err(<<>>, "None")

-----------------------------------------------------------------------------
(* Sequencing of fallible steps.  CHOOSE y \in {e : x \in {v}} : TRUE is  *)
(* e where x = v, with v evaluated once.  With e of the form               *)
(* IF x.st # "ok" THEN Fail(x) ELSE rest, it is the `?` of Rust: the rest  *)
(* of the function runs when the step returned Ok, and the step's failure  *)
(* is returned otherwise.  The steps of a function therefore read from the *)
(* outermost binding (its last line) inwards.                              *)

(* The result of a step that does not touch the context, in context c. *)
In(c, r) == [r EXCEPT !.cx = c]

-----------------------------------------------------------------------------
(* emit/func.rs: EmitFuncContext *)

(* A variant that gives every request a mailbox of its own *)
map_wire_fresh(c, node, port, hugr_type) ==
    (CHOOSE y \in {IF mb.st # "ok" THEN Fail(mb) ELSE
        Ok([mb.cx EXCEPT !.wires = (<<node, port>> :> mb.val) @@ @], mb.val)
       : mb \in {new_value_mail_box(c, hugr_type)}} : TRUE)

map_wire(c, node, port, hugr_type) ==
    IF <<node, port>> \in DOMAIN c.wires THEN Ok(c, c.wires[<<node, port>>])
    ELSE (CHOOSE y \in {IF mb.st # "ok" THEN Fail(mb) ELSE
             Ok([mb.cx EXCEPT !.wires = (<<node, port>> :> mb.val) @@ @], mb.val)
            : mb \in {new_value_mail_box(c, hugr_type)}} : TRUE)

RECURSIVE node_outs_rmb_from(_, _, _, _, _)
node_outs_rmb_from(h, c, node, port, acc) ==
    IF port >= Len(h[node].outs) THEN Ok(c, acc)
    ELSE (CHOOSE y \in {IF mb.st # "ok" THEN Fail(mb) ELSE
             node_outs_rmb_from(h, mb.cx, node, port + 1, Append(acc, mb.val))
            : mb \in {map_wire(c, node, port, h[node].outs[port + 1])}} : TRUE)

node_outs_rmb(h, c, node) == node_outs_rmb_from(h, c, node, 0, <<>>)

RECURSIVE node_ins_rmb_from(_, _, _, _, _)
node_ins_rmb_from(h, c, node, p, acc) ==
    IF p > Len(h[node].ins) THEN Ok(c, acc)
    ELSE (CHOOSE y \in {IF mb.st # "ok" THEN Fail(mb) ELSE
             node_ins_rmb_from(h, mb.cx, node, p + 1, Append(acc, mb.val))
            : mb \in {map_wire(c, h[node].ins[p][1], h[node].ins[p][2],
                      h[h[node].ins[p][1]].outs[h[node].ins[p][2] + 1])}} : TRUE)

node_ins_rmb(h, c, node) == node_ins_rmb_from(h, c, node, 1, <<>>)

-----------------------------------------------------------------------------
(* emit/ops.rs: the emitters *)

RECURSIVE emit_dataflow_parent(_, _, _, _, _)
RECURSIVE emit_optype(_, _, _, _, _)

get_exactly_one_sum_type(ts) ==
    IF Len(ts) = 1 /\ ts[1].k = "Sum" THEN Ok(<<>>, ts[1].rows)
    ELSE Err(<<>>, "Not exactly one SumType")

(* SumOpEmitter::try_new followed by EmitOp<Tag>::emit *)
emit_tag(h, c, node, inputs, outputs) ==
    (CHOOSE y \in {IF sum_type.st # "ok" THEN Fail(sum_type) ELSE
        (CHOOSE y \in {IF llvm_st.st # "ok" THEN Fail(llvm_st) ELSE
            (CHOOSE y \in {IF v.st # "ok" THEN Fail(v) ELSE
                finish(v.cx, outputs, <<v.val>>)
               : v \in {build_tag(c, llvm_st.val, h[node].tag, inputs)}} : TRUE)
           : llvm_st \in {In(c, llvm_sum_type(c.exts.types, sum_type.val))}} : TRUE)
       : sum_type \in {In(c, get_exactly_one_sum_type(out_value_types(h, node)))}} : TRUE)

Some(v) == [some |-> TRUE, v |-> v]

None == [some |-> FALSE, v |-> <<>>]

(* A variant whose emitter keeps its inputs and its promise after handing  *)
(* them out                                                                *)
DataflowParentEmitter_emit_kept(h, c, em, node, inputs, outputs) ==
    IF h[node].op \notin DataflowChildren THEN Err(c, "Not a dataflow child")
    ELSE CASE h[node].op = "Input" ->
                 (CHOOSE y \in {IF r.st # "ok" THEN Fail(r) ELSE
                     Ok(r.cx, em)
                    : r \in {finish(Note(c, "take", node, 0, c.cur, em.inputs.v),
                                     outputs, em.inputs.v)}} : TRUE)
           [] h[node].op = "Output" ->
                 (CHOOSE y \in {IF r.st # "ok" THEN Fail(r) ELSE
                     Ok(r.cx, em)
                    : r \in {finish(Note(c, "take", node, 1, c.cur, em.outputs.v),
                                     em.outputs.v, inputs)}} : TRUE)
           [] OTHER ->
                 (CHOOSE y \in {IF r.st # "ok" THEN Fail(r) ELSE
                     Ok(r.cx, em)
                    : r \in {emit_optype(h, c, node, inputs, outputs)}} : TRUE)

(* DataflowParentEmitter: EmitOp<OpType>::emit; em is the emitter's        *)
(* inputs and outputs options, val of the result the emitter afterwards.   *)
DataflowParentEmitter_emit(h, c, em, node, inputs, outputs) ==
    IF h[node].op \notin DataflowChildren THEN Err(c, "Not a dataflow child")
    ELSE CASE h[node].op = "Input" ->
                 IF ~em.inputs.some
                 THEN Err(c, "DataflowParentEmitter: Input taken twice")
                 ELSE (CHOOSE y \in {IF r.st # "ok" THEN Fail(r) ELSE
                          Ok(r.cx, [em EXCEPT !.inputs = None])
                         : r \in {finish(Note(c, "take", node, 0, c.cur, em.inputs.v),
                                          outputs, em.inputs.v)}} : TRUE)
           [] h[node].op = "Output" ->
                 IF ~em.outputs.some
                 THEN Err(c, "DataflowParentEmitter: Output taken twice")
                 ELSE (CHOOSE y \in {IF r.st # "ok" THEN Fail(r) ELSE
                          Ok(r.cx, [em EXCEPT !.outputs = None])
                         : r \in {finish(Note(c, "take", node, 1, c.cur, em.outputs.v),
                                          em.outputs.v, inputs)}} : TRUE)
           [] OTHER ->
                 (CHOOSE y \in {IF r.st # "ok" THEN Fail(r) ELSE
                     Ok(r.cx, em)
                    : r \in {emit_optype(h, c, node, inputs, outputs)}} : TRUE)

(* The closure of the try_for_each: one child is given its inputs read    *)
(* from its input mailboxes and a promise for its output mailboxes.        *)
emit_child(h, c, em, node) ==
    (CHOOSE y \in {IF inputs_rmb.st # "ok" THEN Fail(inputs_rmb) ELSE
        (CHOOSE y \in {IF inputs.st # "ok" THEN Fail(inputs) ELSE
            (CHOOSE y \in {IF outs.st # "ok" THEN Fail(outs) ELSE
                DataflowParentEmitter_emit(h,
                    Note(outs.cx, "outs", node, 0, outs.cx.cur, outs.val),
                    em, node, inputs.val, promise(outs.val))
               : outs \in {node_outs_rmb(h,
                              Note(Note(inputs.cx, "emit", node, 0, inputs.cx.cur, inputs.val),
                                   "ins", node, 0, inputs.cx.cur, inputs_rmb.val),
                              node)}} : TRUE)
           : inputs \in {read_vec(inputs_rmb.cx, inputs_rmb.val, <<>>)}} : TRUE)
       : inputs_rmb \in {node_ins_rmb(h, c, node)}} : TRUE)

(* A variant that goes on with the later children after a failure and      *)
(* reports the failure at the end                                          *)
RECURSIVE emit_children_deferred(_, _, _, _)
emit_children_deferred(h, c, em, nodes) ==
    IF nodes = <<>> THEN Ok(c, <<>>)
    ELSE (CHOOSE y \in {
             IF r.st # "ok"
             THEN In(emit_children_deferred(h, r.cx, em, Tail(nodes)).cx, Fail(r))
             ELSE emit_children_deferred(h, r.cx, r.val, Tail(nodes))
            : r \in {emit_child(h, c, em, Head(nodes))}} : TRUE)

(* The try_for_each over the region's children in topological order *)
RECURSIVE emit_children(_, _, _, _)
emit_children(h, c, em, nodes) ==
    IF nodes = <<>> THEN Ok(c, <<>>)
    ELSE (CHOOSE y \in {IF r.st # "ok" THEN Fail(r) ELSE
             emit_children(h, r.cx, r.val, Tail(nodes))
            : r \in {emit_child(h, c, em, Head(nodes))}} : TRUE)

emit_dataflow_parent(h, c, node, inputs, outputs) ==
    IF h[node].op \notin DataflowParents THEN Err(c, "Not a dataflow parent")
    ELSE IF get_io(h, node).st # "ok" THEN Err(c, "emit_dataflow_parent: no io nodes")
    ELSE IF c.debug_assertions
            /\ (\/ Len(h[get_io(h, node).val[1]].outs) # Len(inputs)
                \/ Len(h[get_io(h, node).val[2]].ins) # Len(outputs))
    THEN Panic(c, "debug_assert: io arity")
    ELSE emit_children(h, c, [inputs |-> Some(inputs), outputs |-> Some(outputs)],
                       h[node].topo)

(* ConditionalEmitter::emit: the block and mailbox of every case child;    *)
(* acc collects <<i, row_mb, bb>>.                                         *)
RECURSIVE case_values_rmbs_blocks(_, _, _, _, _, _, _)
case_values_rmbs_blocks(h, c, node, i, exit_block, exit_rmb, acc) ==
    IF i >= Len(h[node].children) THEN Ok(c, acc)
    ELSE IF h[h[node].children[i + 1]].op # "Case" THEN Err(c, "not a case node")
    ELSE IF get_io(h, h[node].children[i + 1]).st # "ok"
    THEN Panic(c, "get_io().unwrap()")
    ELSE (CHOOSE y \in {IF row_mb.st # "ok" THEN Fail(row_mb) ELSE
             (CHOOSE y \in {IF bb.st # "ok" THEN Fail(bb) ELSE
                 (CHOOSE y \in {IF inputs.st # "ok" THEN Fail(inputs) ELSE
                     (CHOOSE y \in {IF body.st # "ok" THEN Fail(body) ELSE
                         (CHOOSE y \in {IF br.st # "ok" THEN Fail(br) ELSE
                             case_values_rmbs_blocks(
                             h, position_at_end(br.cx, c.cur), node, i + 1, exit_block, exit_rmb,
                             Append(acc, <<i, row_mb.val, bb.val>>))
                            : br \in {build_unconditional_branch(body.cx, exit_block)}} : TRUE)
                        : body \in {emit_dataflow_parent(
                                    h, Note(inputs.cx, "case", node, i, bb.val, inputs.val),
                                    h[node].children[i + 1], inputs.val, promise(exit_rmb))}} : TRUE)
                    : inputs \in {read_vec(position_at_end(bb.cx, bb.val), row_mb.val, <<>>)}} : TRUE)
                : bb \in {new_basic_block(row_mb.cx)}} : TRUE)
            : row_mb \in {new_row_mail_box(
                          c, h[get_io(h, h[node].children[i + 1]).val[1]].outs, <<>>)}} : TRUE)

RECURSIVE switches_tag_off_by_one(_, _, _, _, _, _)
switches_tag_off_by_one(c, llvm_st, sum_input, passthrough, cases, acc) ==
    IF cases = <<>> THEN Ok(c, acc)
    ELSE (CHOOSE y \in {IF vs.st # "ok" THEN Fail(vs) ELSE
             (CHOOSE y \in {IF w.st # "ok" THEN Fail(w) ELSE
                 switches_tag_off_by_one(
                 w.cx, llvm_st, sum_input, passthrough, Tail(cases),
                 Append(acc, <<Head(cases)[1] + 1, Head(cases)[3]>>))
                : w \in {write(vs.cx, Head(cases)[2], vs.val \o passthrough)}} : TRUE)
            : vs \in {build_untag(c, llvm_st, Head(cases)[1], sum_input, c.debug_assertions)}} : TRUE)

(* A variant that writes the other inputs before the fields of the variant *)
RECURSIVE switches_passthrough_first(_, _, _, _, _, _)
switches_passthrough_first(c, llvm_st, sum_input, passthrough, cases, acc) ==
    IF cases = <<>> THEN Ok(c, acc)
    ELSE (CHOOSE y \in {IF vs.st # "ok" THEN Fail(vs) ELSE
             (CHOOSE y \in {IF w.st # "ok" THEN Fail(w) ELSE
                 switches_passthrough_first(
                 w.cx, llvm_st, sum_input, passthrough, Tail(cases),
                 Append(acc, <<Head(cases)[1], Head(cases)[3]>>))
                : w \in {write(vs.cx, Head(cases)[2], passthrough \o vs.val)}} : TRUE)
            : vs \in {build_untag(c, llvm_st, Head(cases)[1], sum_input, c.debug_assertions)}} : TRUE)

RECURSIVE switches(_, _, _, _, _, _)
switches(c, llvm_st, sum_input, passthrough, cases, acc) ==
    IF cases = <<>> THEN Ok(c, acc)
    ELSE (CHOOSE y \in {IF vs.st # "ok" THEN Fail(vs) ELSE
             (CHOOSE y \in {IF w.st # "ok" THEN Fail(w) ELSE
                 switches(
                 w.cx, llvm_st, sum_input, passthrough, Tail(cases),
                 Append(acc, <<Head(cases)[1], Head(cases)[3]>>))
                : w \in {write(vs.cx, Head(cases)[2], vs.val \o passthrough)}} : TRUE)
            : vs \in {build_untag(c, llvm_st, Head(cases)[1], sum_input, c.debug_assertions)}} : TRUE)

first_in_value_type(h, node) ==
    IF in_value_types(h, node) = <<>> THEN <<>> ELSE <<in_value_types(h, node)[1]>>

emit_conditional(h, c, node, inputs, outputs) ==
    (CHOOSE y \in {IF exit_rmb.st # "ok" THEN Fail(exit_rmb) ELSE
        (CHOOSE y \in {IF exit_block.st # "ok" THEN Fail(exit_block) ELSE
            (CHOOSE y \in {IF exit_vs.st # "ok" THEN Fail(exit_vs) ELSE
                (CHOOSE y \in {IF fin.st # "ok" THEN Fail(fin) ELSE
                    (CHOOSE y \in {IF cases.st # "ok" THEN Fail(cases) ELSE
                        (CHOOSE y \in {IF sum_type.st # "ok" THEN Fail(sum_type) ELSE
                            (CHOOSE y \in {IF llvm_st.st # "ok" THEN Fail(llvm_st) ELSE
                                IF inputs = <<>> THEN Panic(cases.cx, "index out of bounds: inputs[0]")
                                     ELSE IF cases.cx.debug_assertions /\ cases.cx.rty[inputs[1]] # llvm_st.val.ty
                                     THEN Panic(cases.cx, "debug_assert: selector type")
                                     ELSE
                                (CHOOSE y \in {IF tag.st # "ok" THEN Fail(tag) ELSE
                                    (CHOOSE y \in {IF sw.st # "ok" THEN Fail(sw) ELSE
                                        IF sw.val = <<>> THEN Panic(sw.cx, "index out of bounds: switches[0]")
                                             ELSE
                                        (CHOOSE y \in {IF b.st # "ok" THEN Fail(b) ELSE
                                            Ok(position_at_end(b.cx, exit_block.val), <<>>)
                                           : b \in {build_switch(sw.cx, tag.val, sw.val[1][2], Tail(sw.val))}} : TRUE)
                                       : sw \in {switches(tag.cx, llvm_st.val, inputs[1], Tail(inputs), cases.val, <<>>)}} : TRUE)
                                   : tag \in {build_get_tag(cases.cx, llvm_st.val, inputs[1])}} : TRUE)
                               : llvm_st \in {In(cases.cx, llvm_sum_type(c.exts.types, sum_type.val))}} : TRUE)
                           : sum_type \in {In(cases.cx, get_exactly_one_sum_type(first_in_value_type(h, node)))}} : TRUE)
                       : cases \in {case_values_rmbs_blocks(h, position_at_end(fin.cx, c.cur), node, 0,
                                    exit_block.val, exit_rmb.val, <<>>)}} : TRUE)
                   : fin \in {finish(Note(exit_vs.cx, "cond_exit", node, 0, exit_block.val, exit_vs.val),
                              outputs, exit_vs.val)}} : TRUE)
               : exit_vs \in {read_vec(position_at_end(exit_block.cx, exit_block.val), exit_rmb.val, <<>>)}} : TRUE)
           : exit_block \in {new_basic_block(exit_rmb.cx)}} : TRUE)
       : exit_rmb \in {new_row_mail_box(c, h[node].outs, <<>>)}} : TRUE)

-----------------------------------------------------------------------------
(* emit/ops/cfg.rs: CfgEmitter.  bbs maps a child of the CFG node to its   *)
(* basic block and input mailbox.                                          *)

(* A variant that allocates for the children up to the exit block only *)
RECURSIVE CfgEmitter_new_bbs_to_exit(_, _, _, _, _, _)
CfgEmitter_new_bbs_to_exit(h, c, node, children, exit_block, bbs) ==
    IF children = <<>> THEN Ok(c, bbs)
    ELSE IF h[Head(children)].op = "ExitBlock"
    THEN (CHOOSE y \in {IF output_row.st # "ok" THEN Fail(output_row) ELSE
             Ok(Note(output_row.cx, "alloc", Head(children), 0, exit_block, output_row.val),
                (Head(children) :> [bb |-> exit_block, rmb |-> output_row.val]) @@ bbs)
            : output_row \in {new_row_mail_box(c, out_value_types(h, node), <<>>)}} : TRUE)
    ELSE (CHOOSE y \in {IF bb.st # "ok" THEN Fail(bb) ELSE
             IF get_io(h, Head(children)).st # "ok"
                  THEN Panic(bb.cx, "get_io().unwrap()")
                  ELSE
             (CHOOSE y \in {IF row_mb.st # "ok" THEN Fail(row_mb) ELSE
                 CfgEmitter_new_bbs_to_exit(
                 h, Note(row_mb.cx, "alloc", Head(children), 0, bb.val, row_mb.val),
                 node, Tail(children), exit_block,
                 (Head(children) :> [bb |-> bb.val, rmb |-> row_mb.val]) @@ bbs)
                : row_mb \in {node_outs_rmb(h, bb.cx, get_io(h, Head(children)).val[1])}} : TRUE)
            : bb \in {new_basic_block(c)}} : TRUE)

RECURSIVE CfgEmitter_new_bbs(_, _, _, _, _, _)
CfgEmitter_new_bbs(h, c, node, children, exit_block, bbs) ==
    IF children = <<>> THEN Ok(c, bbs)
    ELSE IF h[Head(children)].op = "ExitBlock"
    THEN (CHOOSE y \in {IF output_row.st # "ok" THEN Fail(output_row) ELSE
             CfgEmitter_new_bbs(
             h, Note(output_row.cx, "alloc", Head(children), 0, exit_block, output_row.val),
             node, Tail(children), exit_block,
             (Head(children) :> [bb |-> exit_block, rmb |-> output_row.val]) @@ bbs)
            : output_row \in {new_row_mail_box(c, out_value_types(h, node), <<>>)}} : TRUE)
    ELSE (CHOOSE y \in {IF bb.st # "ok" THEN Fail(bb) ELSE
             IF get_io(h, Head(children)).st # "ok"
                  THEN Panic(bb.cx, "get_io().unwrap()")
                  ELSE
             (CHOOSE y \in {IF row_mb.st # "ok" THEN Fail(row_mb) ELSE
                 CfgEmitter_new_bbs(
                 h, Note(row_mb.cx, "alloc", Head(children), 0, bb.val, row_mb.val),
                 node, Tail(children), exit_block,
                 (Head(children) :> [bb |-> bb.val, rmb |-> row_mb.val]) @@ bbs)
                : row_mb \in {node_outs_rmb(h, bb.cx, get_io(h, Head(children)).val[1])}} : TRUE)
            : bb \in {new_basic_block(c)}} : TRUE)

(* get_entry_exit: the first two children, a DataflowBlock and an ExitBlock *)
get_entry_exit(h, node) ==
    IF /\ Len(h[node].children) >= 2
       /\ h[h[node].children[1]].op = "DataflowBlock"
       /\ h[h[node].children[2]].op = "ExitBlock"
    THEN Ok(<<>>, <<h[node].children[1], h[node].children[2]>>)
    ELSE Err(<<>>, "None")

CfgEmitter_new(h, c, node, inputs, outputs) ==
    (CHOOSE y \in {IF exit_block.st # "ok" THEN Fail(exit_block) ELSE
        (CHOOSE y \in {IF bbs.st # "ok" THEN Fail(bbs) ELSE
            IF get_entry_exit(h, node).st # "ok"
            THEN Panic(bbs.cx, "get_entry_exit().unwrap()")
            ELSE Ok(bbs.cx, [bbs |-> bbs.val,
                             inputs |-> Some(inputs),
                             outputs |-> Some(outputs),
                             node |-> node,
                             entry_node |-> get_entry_exit(h, node).val[1],
                             exit_node |-> get_entry_exit(h, node).val[2]])
           : bbs \in {CfgEmitter_new_bbs(h, exit_block.cx, node, h[node].children,
                      exit_block.val, <<>>)}} : TRUE)
       : exit_block \in {new_basic_block(c)}} : TRUE)

get_block_data(self, node) ==
    IF node \in DOMAIN self.bbs THEN Ok(<<>>, self.bbs[node])
    ELSE Err(<<>>, "Couldn't get block data")

RECURSIVE successor_data(_, _, _)
successor_data(self, succs, acc) ==
    IF succs = <<>> THEN Ok(<<>>, acc)
    ELSE (CHOOSE y \in {IF d.st # "ok" THEN Fail(d) ELSE
             successor_data(self, Tail(succs), Append(acc, d.val))
            : d \in {get_block_data(self, Head(succs))}} : TRUE)

(* One block per successor edge: it writes the edge's row into the         *)
(* successor's mailbox and branches to the successor's block.              *)
RECURSIVE tag_bbs_drop_rest(_, _, _, _, _, _, _)
tag_bbs_drop_rest(c, node, llvm_st, outputs, succs, tag, acc) ==
    IF succs = <<>> THEN Ok(c, acc)
    ELSE (CHOOSE y \in {IF bb.st # "ok" THEN Fail(bb) ELSE
             (CHOOSE y \in {IF vals.st # "ok" THEN Fail(vals) ELSE
                 (CHOOSE y \in {IF w.st # "ok" THEN Fail(w) ELSE
                     (CHOOSE y \in {IF br.st # "ok" THEN Fail(br) ELSE
                         tag_bbs_drop_rest(position_at_end(br.cx, c.cur), node, llvm_st, outputs,
                         Tail(succs), tag + 1, Append(acc, <<tag, bb.val>>))
                        : br \in {build_unconditional_branch(
                                  Note(w.cx, "edge", node, tag, bb.val, vals.val),
                                  Head(succs).bb)}} : TRUE)
                    : w \in {write(vals.cx, Head(succs).rmb, vals.val)}} : TRUE)
                : vals \in {build_untag(position_at_end(bb.cx, bb.val), llvm_st, tag, outputs[1],
                            c.debug_assertions)}} : TRUE)
            : bb \in {new_basic_block(c)}} : TRUE)

(* A variant whose edges all write the mailbox of the last successor *)
RECURSIVE tag_bbs_last_mailbox(_, _, _, _, _, _, _)
tag_bbs_last_mailbox(c, node, llvm_st, outputs, succs, tag, acc) ==
    IF succs = <<>> THEN Ok(c, acc)
    ELSE (CHOOSE y \in {IF bb.st # "ok" THEN Fail(bb) ELSE
             (CHOOSE y \in {IF vals.st # "ok" THEN Fail(vals) ELSE
                 (CHOOSE y \in {IF w.st # "ok" THEN Fail(w) ELSE
                     (CHOOSE y \in {IF br.st # "ok" THEN Fail(br) ELSE
                         tag_bbs_last_mailbox(position_at_end(br.cx, c.cur), node, llvm_st, outputs,
                         Tail(succs), tag + 1, Append(acc, <<tag, bb.val>>))
                        : br \in {build_unconditional_branch(
                                  Note(w.cx, "edge", node, tag, bb.val, vals.val \o Tail(outputs)),
                                  Head(succs).bb)}} : TRUE)
                    : w \in {write(vals.cx, succs[Len(succs)].rmb, vals.val \o Tail(outputs))}} : TRUE)
                : vals \in {build_untag(position_at_end(bb.cx, bb.val), llvm_st, tag, outputs[1],
                            c.debug_assertions)}} : TRUE)
            : bb \in {new_basic_block(c)}} : TRUE)

(* A variant that writes the pass-through outputs before the fields *)
RECURSIVE tag_bbs_rest_first(_, _, _, _, _, _, _)
tag_bbs_rest_first(c, node, llvm_st, outputs, succs, tag, acc) ==
    IF succs = <<>> THEN Ok(c, acc)
    ELSE (CHOOSE y \in {IF bb.st # "ok" THEN Fail(bb) ELSE
             (CHOOSE y \in {IF vals.st # "ok" THEN Fail(vals) ELSE
                 (CHOOSE y \in {IF w.st # "ok" THEN Fail(w) ELSE
                     (CHOOSE y \in {IF br.st # "ok" THEN Fail(br) ELSE
                         tag_bbs_rest_first(position_at_end(br.cx, c.cur), node, llvm_st, outputs,
                         Tail(succs), tag + 1, Append(acc, <<tag, bb.val>>))
                        : br \in {build_unconditional_branch(
                                  Note(w.cx, "edge", node, tag, bb.val, Tail(outputs) \o vals.val),
                                  Head(succs).bb)}} : TRUE)
                    : w \in {write(vals.cx, Head(succs).rmb, Tail(outputs) \o vals.val)}} : TRUE)
                : vals \in {build_untag(position_at_end(bb.cx, bb.val), llvm_st, tag, outputs[1],
                            c.debug_assertions)}} : TRUE)
            : bb \in {new_basic_block(c)}} : TRUE)

RECURSIVE tag_bbs(_, _, _, _, _, _, _)
tag_bbs(c, node, llvm_st, outputs, succs, tag, acc) ==
    IF succs = <<>> THEN Ok(c, acc)
    ELSE (CHOOSE y \in {IF bb.st # "ok" THEN Fail(bb) ELSE
             (CHOOSE y \in {IF vals.st # "ok" THEN Fail(vals) ELSE
                 (CHOOSE y \in {IF w.st # "ok" THEN Fail(w) ELSE
                     (CHOOSE y \in {IF br.st # "ok" THEN Fail(br) ELSE
                         tag_bbs(position_at_end(br.cx, c.cur), node, llvm_st, outputs,
                         Tail(succs), tag + 1, Append(acc, <<tag, bb.val>>))
                        : br \in {build_unconditional_branch(
                                  Note(w.cx, "edge", node, tag, bb.val, vals.val \o Tail(outputs)),
                                  Head(succs).bb)}} : TRUE)
                    : w \in {write(vals.cx, Head(succs).rmb, vals.val \o Tail(outputs))}} : TRUE)
                : vals \in {build_untag(position_at_end(bb.cx, bb.val), llvm_st, tag, outputs[1],
                            c.debug_assertions)}} : TRUE)
            : bb \in {new_basic_block(c)}} : TRUE)

(* EmitOp<DataflowBlock> for CfgEmitter *)
CfgEmitter_emit_block(h, c, self, node) ==
    IF node \notin DOMAIN self.bbs THEN Panic(c, "bbs.get().unwrap()") ELSE
    (CHOOSE y \in {IF succs.st # "ok" THEN Fail(succs) ELSE
        IF get_io(h, node).st # "ok" THEN Panic(c, "get_io().unwrap()")
             ELSE
        (CHOOSE y \in {IF outputs_rmb.st # "ok" THEN Fail(outputs_rmb) ELSE
            (CHOOSE y \in {IF inputs.st # "ok" THEN Fail(inputs) ELSE
                (CHOOSE y \in {IF body.st # "ok" THEN Fail(body) ELSE
                    (CHOOSE y \in {IF outputs.st # "ok" THEN Fail(outputs) ELSE
                        (CHOOSE y \in {IF llvm_st.st # "ok" THEN Fail(llvm_st) ELSE
                            IF outputs.val = <<>>
                                 THEN Panic(outputs.cx, "index out of bounds: outputs[0]")
                                 ELSE
                            (CHOOSE y \in {IF tbs.st # "ok" THEN Fail(tbs) ELSE
                                (CHOOSE y \in {IF tag_v.st # "ok" THEN Fail(tag_v) ELSE
                                    IF tbs.val = <<>>
                                         THEN Panic(tag_v.cx, "index out of bounds: tag_bbs[0]")
                                         ELSE
                                    (CHOOSE y \in {IF b.st # "ok" THEN Fail(b) ELSE
                                        Ok(position_at_end(b.cx, c.cur), self)
                                       : b \in {build_switch(tag_v.cx, tag_v.val, tbs.val[1][2], Tail(tbs.val))}} : TRUE)
                                   : tag_v \in {build_get_tag(tbs.cx, llvm_st.val, outputs.val[1])}} : TRUE)
                               : tbs \in {tag_bbs(outputs.cx, node, llvm_st.val, outputs.val, succs.val, 0, <<>>)}} : TRUE)
                           : llvm_st \in {In(outputs.cx, llvm_sum_type(c.exts.types, h[node].rows))}} : TRUE)
                       : outputs \in {read_vec(body.cx, outputs_rmb.val, <<>>)}} : TRUE)
                   : body \in {emit_dataflow_parent(
                               h, Note(inputs.cx, "block", node, 0, self.bbs[node].bb, inputs.val),
                               node, inputs.val, promise(outputs_rmb.val))}} : TRUE)
               : inputs \in {read_vec(outputs_rmb.cx, self.bbs[node].rmb, <<>>)}} : TRUE)
           : outputs_rmb \in {node_ins_rmb(h, position_at_end(c, self.bbs[node].bb),
                              get_io(h, node).val[2])}} : TRUE)
       : succs \in {In(c, successor_data(self, h[node].succ, <<>>))}} : TRUE)

(* EmitOp<ExitBlock> for CfgEmitter *)
CfgEmitter_emit_exit(h, c, self, node) ==
    IF ~self.outputs.some THEN Err(c, "Couldn't take inputs")
    ELSE IF node \notin DOMAIN self.bbs THEN Panic(c, "bbs.get().unwrap()")
    ELSE (CHOOSE y \in {IF vs.st # "ok" THEN Fail(vs) ELSE
             (CHOOSE y \in {IF r.st # "ok" THEN Fail(r) ELSE
                 Ok(position_at_end(r.cx, c.cur), [self EXCEPT !.outputs = None])
                : r \in {finish(Note(Note(vs.cx, "exit", node, 0, self.bbs[node].bb, vs.val),
                                     "take", node, 1, self.bbs[node].bb, self.outputs.v),
                                self.outputs.v, vs.val)}} : TRUE)
            : vs \in {read_vec(position_at_end(c, self.bbs[node].bb), self.bbs[node].rmb, <<>>)}} : TRUE)

RECURSIVE CfgEmitter_emit_each(_, _, _, _)
CfgEmitter_emit_each(h, c, self, children) ==
    IF children = <<>> THEN Ok(c, self)
    ELSE (CHOOSE y \in {IF r.st # "ok" THEN Fail(r) ELSE
             CfgEmitter_emit_each(h, r.cx, r.val, Tail(children))
            : r \in {CASE h[Head(children)].op = "DataflowBlock" ->
                            CfgEmitter_emit_block(h, c, self, Head(children))
                     [] h[Head(children)].op = "ExitBlock" ->
                            CfgEmitter_emit_exit(h, c, self, Head(children))
                     [] OTHER -> Err(c, "unknown optype")}} : TRUE)

(* A variant that leaves the builder where the last child left it *)
CfgEmitter_emit_children_unmoved(h, c, self) ==
    IF ~self.inputs.some THEN Err(c, "Couldn't take inputs")
    ELSE (CHOOSE y \in {IF entry.st # "ok" THEN Fail(entry) ELSE
             (CHOOSE y \in {IF w.st # "ok" THEN Fail(w) ELSE
                 (CHOOSE y \in {IF br.st # "ok" THEN Fail(br) ELSE
                     (CHOOSE y \in {IF each.st # "ok" THEN Fail(each) ELSE
                         (CHOOSE y \in {IF exit.st # "ok" THEN Fail(exit) ELSE
                             Ok(exit.cx, <<>>)
                            : exit \in {In(each.cx, get_block_data(each.val, self.exit_node))}} : TRUE)
                        : each \in {CfgEmitter_emit_each(h, br.cx, [self EXCEPT !.inputs = None],
                                    h[self.node].children)}} : TRUE)
                    : br \in {build_unconditional_branch(w.cx, entry.val.bb)}} : TRUE)
                : w \in {write(Note(c, "take", self.entry_node, 0, c.cur, self.inputs.v),
                               entry.val.rmb, self.inputs.v)}} : TRUE)
            : entry \in {In(c, get_block_data(self, self.entry_node))}} : TRUE)

CfgEmitter_emit_children(h, c, self) ==
    IF ~self.inputs.some THEN Err(c, "Couldn't take inputs")
    ELSE (CHOOSE y \in {IF entry.st # "ok" THEN Fail(entry) ELSE
             (CHOOSE y \in {IF w.st # "ok" THEN Fail(w) ELSE
                 (CHOOSE y \in {IF br.st # "ok" THEN Fail(br) ELSE
                     (CHOOSE y \in {IF each.st # "ok" THEN Fail(each) ELSE
                         (CHOOSE y \in {IF exit.st # "ok" THEN Fail(exit) ELSE
                             Ok(position_at_end(exit.cx, exit.val.bb), <<>>)
                            : exit \in {In(each.cx, get_block_data(each.val, self.exit_node))}} : TRUE)
                        : each \in {CfgEmitter_emit_each(h, br.cx, [self EXCEPT !.inputs = None],
                                    h[self.node].children)}} : TRUE)
                    : br \in {build_unconditional_branch(w.cx, entry.val.bb)}} : TRUE)
                : w \in {write(Note(c, "take", self.entry_node, 0, c.cur, self.inputs.v),
                               entry.val.rmb, self.inputs.v)}} : TRUE)
            : entry \in {In(c, get_block_data(self, self.entry_node))}} : TRUE)

emit_cfg(h, c, node, inputs, outputs) ==
    (CHOOSE y \in {IF self.st # "ok" THEN Fail(self) ELSE
        CfgEmitter_emit_children(h, Note(self.cx, "cfg", node, c.cur, self.cx.cur, <<>>),
                                 self.val)
       : self \in {CfgEmitter_new(h, c, node, inputs, outputs)}} : TRUE)

-----------------------------------------------------------------------------
(* emit/ops.rs: emit_call *)

(* get_func_decl / get_func_defn: the function value of a declaration or   *)
(* definition node, typed by the call's results.                           *)
get_func(h, c, func_node, out_types) ==
    IF h[func_node].op \notin {"FuncDecl", "FuncDefn"}
    THEN Err(c, "emit_call: Not a Decl or Defn")
    ELSE (CHOOSE y \in {IF rets.st # "ok" THEN Fail(rets) ELSE
             Ok(c, [node |-> func_node, rets |-> rets.val])
            : rets \in {In(c, llvm_row(c.exts.types, out_types))}} : TRUE)

RECURSIVE extract_rets(_, _, _, _, _)
extract_rets(c, return_struct, i, n, acc) ==
    IF i >= n THEN Ok(c, acc)
    ELSE (CHOOSE y \in {IF v.st # "ok" THEN Fail(v) ELSE
             extract_rets(v.cx, return_struct, i + 1, n, Append(acc, v.val))
            : v \in {build_extract_value(c, return_struct, i)}} : TRUE)

(* build_call: the register of the result, 0 for a void function *)
build_call(c, func, args) ==
    IF func.rets = <<>> THEN Ok(Emit(c, Call(0, func.node, args)), 0)
    ELSE (CHOOSE y \in {IF c1.st # "ok" THEN Fail(c1) ELSE
             Ok(Emit(c1.cx, Call(LastReg(c1.cx), func.node, args)), LastReg(c1.cx))
            : c1 \in {Ok(NewReg(c, IF Len(func.rets) = 1 THEN func.rets[1]
                      ELSE StructTy(func.rets)), 0)}} : TRUE)

emit_call(h, c, node, inputs, outputs) ==
    IF h[node].params > 0
    THEN Panic(c, "not yet implemented: Call of generic function")
    ELSE IF h[node].callee = 0 THEN Panic(c, "single_linked_output().unwrap()")
    ELSE (CHOOSE y \in {IF func.st # "ok" THEN Fail(func) ELSE
             (CHOOSE y \in {IF call.st # "ok" THEN Fail(call) ELSE
                 CASE Len(outputs) = 0 ->
                        IF call.val # 0 THEN Panic(call.cx, "void")
                        ELSE finish(call.cx, outputs, <<>>)
                 [] Len(outputs) = 1 ->
                        IF call.val = 0 THEN Panic(call.cx, "non-void")
                        ELSE finish(call.cx, outputs, <<call.val>>)
                 [] OTHER ->
                        IF call.val = 0 THEN Panic(call.cx, "non-void")
                        ELSE (CHOOSE y \in {IF rets.st # "ok" THEN Fail(rets) ELSE
                                 finish(rets.cx, outputs, rets.val)
                                : rets \in {extract_rets(call.cx, call.val, 0, Len(outputs), <<>>)}} : TRUE)
                : call \in {build_call(c, func.val, inputs)}} : TRUE)
            : func \in {get_func(h, c, h[node].callee, out_value_types(h, node))}} : TRUE)

-----------------------------------------------------------------------------
(* custom/angle.rs: the tket2.angle extension *)

ANGLE_CUSTOM_TYPE == CustomType(<<"tket2.angle", "angle">>)

llvm_angle_type(tymap) ==
    (CHOOSE y \in {IF t.st # "ok" THEN Fail(t)
                   ELSE IF ~is_int_type(t.val) THEN Err(<<>>, "USIZE_T is not an int type")
                   ELSE t
       : t \in {llvm_type(tymap, usize_t)}} : TRUE)

AngleCodegenExtension_llvm_type(tymap, hugr_type) ==
    IF hugr_type = ANGLE_CUSTOM_TYPE
    THEN (CHOOSE y \in {IF r.st # "ok" THEN Fail(r)
                        ELSE IF ~is_int_type(r.val)
                        THEN Err(<<>>, "USIZE_T is not an int type")
                        ELSE r
            : r \in {llvm_type(tymap, usize_t)}} : TRUE)
    ELSE Err(<<>>, "Unsupported type")

(* AngleOpEmitter::emit for the arithmetic operations *)
AngleOpEmitter_emit(c, op, inputs, outputs) ==
    (CHOOSE y \in {IF angle_ty.st # "ok" THEN Fail(angle_ty) ELSE
        (CHOOSE y \in {IF r.st # "ok" THEN Fail(r) ELSE finish(r.cx, outputs, <<r.val>>)
           : r \in {CASE op = "aadd" ->
                          IF Len(inputs) # 2
                          THEN Err(c, "AngleOp::aadd expects two arguments")
                          ELSE build_int_add(c, inputs[1], inputs[2])
                      [] op = "asub" ->
                          IF Len(inputs) # 2
                          THEN Err(c, "AngleOp::asub expects one arguments")
                          ELSE build_int_sub(c, inputs[1], inputs[2])
                      [] op = "aneg" ->
                          IF Len(inputs) # 1
                          THEN Err(c, "AngleOp::aparts expects one arguments")
                          ELSE build_int_neg(c, inputs[1])
                      [] op = "amul" ->
                          IF Len(inputs) # 2
                          THEN Err(c, "AngleOp::amul expects two arguments")
                          ELSE build_int_mul(c, inputs[1], inputs[2])
                      [] OTHER -> Err(c, "Unsupported op")}} : TRUE)
       : angle_ty \in {In(c, llvm_angle_type(c.exts.types))}} : TRUE)

-----------------------------------------------------------------------------
(* custom/qir.rs emit_qir_xqb: a gate is a call of the external function   *)
(* on the inputs, which are passed on as the outputs.                      *)
(* A variant that calls the function and leaves its promise unwritten *)
emit_qir_xqb_unfinished(c, inputs, outputs, func) ==
    Ok(Emit(c, Call(0, func, inputs)), <<>>)

emit_qir_xqb(c, inputs, outputs, func) ==
    finish(Emit(c, Call(0, func, inputs)), outputs, inputs)

(* The handlers registered for operations: H1 lowers gates, H2 the angle   *)
(* operations.                                                             *)
OpHandler_emit(handler, c, name, inputs, outputs) ==
    IF handler = "H2" THEN AngleOpEmitter_emit(c, name, inputs, outputs)
    ELSE emit_qir_xqb(c, inputs, outputs, name)

(* custom.rs: CodegenExtensionsBuilder::emit for a CustomOp node; the      *)
(* handler found is the extension's own code.                              *)
emit_custom_op(h, c, node, inputs, outputs) ==
    (CHOOSE y \in {IF handler.st # "ok" THEN Fail(handler) ELSE
        OpHandler_emit(handler.val, Note(c, "custom", node, 0, c.cur, inputs),
                       h[node].name, inputs, outputs)
       : handler \in {In(c, emitter(c.exts.ops, h[node].name))}} : TRUE)

emit_optype(h, c, node, inputs, outputs) ==
    CASE h[node].op = "Tag" -> emit_tag(h, c, node, inputs, outputs)
      [] h[node].op = "DFG" -> emit_dataflow_parent(h, c, node, inputs, outputs)
      [] h[node].op = "CustomOp" -> emit_custom_op(h, c, node, inputs, outputs)
      [] h[node].op = "Const" -> Ok(c, <<>>)
      [] h[node].op = "Call" -> emit_call(h, c, node, inputs, outputs)
      [] h[node].op = "Conditional" -> emit_conditional(h, c, node, inputs, outputs)
      [] h[node].op = "CFG" -> emit_cfg(h, c, node, inputs, outputs)
      [] OTHER -> Panic(c, "not yet implemented: Unimplemented OpTypeEmitter")

-----------------------------------------------------------------------------
(* Lowering one function.  The module driver (emit.rs) hands the function's *)
(* body to emit_dataflow_parent with the parameters as inputs and a        *)
(* promise for the results, which it reads back to return them.            *)

emit_func(h, c, node, args) ==
    (CHOOSE y \in {IF results.st # "ok" THEN Fail(results) ELSE
        (CHOOSE y \in {IF body.st # "ok" THEN Fail(body) ELSE
            (CHOOSE y \in {IF rets.st # "ok" THEN Fail(rets) ELSE
                Ok(Note(rets.cx, "ret", node, 0, rets.cx.cur, rets.val), rets.val)
               : rets \in {read_vec(body.cx, results.val, <<>>)}} : TRUE)
           : body \in {emit_dataflow_parent(h, results.cx, node, args, promise(results.val))}} : TRUE)
       : results \in {new_row_mail_box(c, in_value_types(h, get_io(h, node).val[2]), <<>>)}} : TRUE)

Usizes(n) == [k \in 1..n |-> usize_t]

Ports(node, from, n) == [k \in 1..n |-> <<node, from + k - 1>>]

FuncBody(children, topo) ==
    [Node("FuncDefn") EXCEPT !.children = children, !.topo = topo]

(* emit/test.rs emit_hugr_conditional: a function whose body tags its      *)
(* first parameters into a sum and dispatches a Conditional on it; every   *)
(* case returns the pass-through inputs.  Node 1 is the function, 2 and 3  *)
(* its Input and Output, 4 the Tag, 5 the Conditional, and case j is the   *)
(* nodes 6+3j (Case), 7+3j (Input), 8+3j (Output).                         *)
CaseRow(rows, j) == IF j < Len(rows) THEN rows[j + 1] ELSE <<>>

ConditionalHugr(rows, tag, ncases, npass) ==
    LET nf == Len(rows[tag + 1])
    IN  [n \in 1..(5 + 3 * ncases) |->
           CASE n = 1 -> FuncBody(<<2, 3, 4, 5>>, <<2, 4, 5, 3>>)
             [] n = 2 -> [Node("Input") EXCEPT !.outs = Usizes(nf + npass)]
             [] n = 3 -> [Node("Output") EXCEPT !.ins = Ports(5, 0, npass)]
             [] n = 4 -> [Node("Tag") EXCEPT !.ins = Ports(2, 0, nf),
                                             !.outs = <<SumType(rows)>>,
                                             !.tag = tag]
             [] n = 5 -> [Node("Conditional") EXCEPT
                              !.ins = <<<<4, 0>>>> \o Ports(2, nf, npass),
                              !.outs = Usizes(npass),
                              !.rows = rows,
                              !.children = [j \in 1..ncases |-> 3 + 3 * j]]
             [] OTHER ->
                   LET j == (n - 6) \div 3
                       role == (n - 6) % 3
                       row == CaseRow(rows, j)
                   IN  CASE role = 0 ->
                                [Node("Case") EXCEPT !.children = <<n + 1, n + 2>>,
                                                     !.topo = <<n + 1, n + 2>>]
                         [] role = 1 ->
                                [Node("Input") EXCEPT !.outs = Usizes(Len(row) + npass)]
                         [] OTHER ->
                                [Node("Output") EXCEPT
                                     !.ins = Ports(n - 1, Len(row), npass)]]

(* emit/test.rs diverse_cfg_children, reduced to the two blocks: node 4 is *)
(* the CFG, 5 its entry DataflowBlock (Input 7, Output 8, Tag 9) with      *)
(* nsucc successor edges, all to the ExitBlock 6.                          *)
CfgHugr(row, nsucc, tag, npass) ==
    LET nf == Len(row)
        control == [k \in 1..nsucc |-> row]
    IN  <<FuncBody(<<2, 3, 4>>, <<2, 4, 3>>),
          [Node("Input") EXCEPT !.outs = Usizes(nf + npass)],
          [Node("Output") EXCEPT !.ins = Ports(4, 0, nf + npass)],
          [Node("CFG") EXCEPT !.ins = Ports(2, 0, nf + npass),
                              !.outs = Usizes(nf + npass),
                              !.children = <<5, 6>>],
          [Node("DataflowBlock") EXCEPT !.children = <<7, 8, 9>>,
                                        !.topo = <<7, 9, 8>>,
                                        !.rows = control,
                                        !.succ = [k \in 1..nsucc |-> 6]],
          Node("ExitBlock"),
          [Node("Input") EXCEPT !.outs = Usizes(nf + npass)],
          [Node("Output") EXCEPT !.ins = <<<<9, 0>>>> \o Ports(7, nf, npass)],
          [Node("Tag") EXCEPT !.ins = Ports(7, 0, nf),
                              !.outs = <<SumType(control)>>,
                              !.tag = tag]>>

(* A function calling node 5 with its parameters and returning the call's  *)
(* results.                                                                *)
CallHugr(callee, params, nargs, nouts) ==
    <<FuncBody(<<2, 3, 4>>, <<2, 4, 3>>),
      [Node("Input") EXCEPT !.outs = Usizes(nargs)],
      [Node("Output") EXCEPT !.ins = Ports(4, 0, nouts)],
      [Node("Call") EXCEPT !.ins = Ports(2, 0, nargs),
                           !.outs = Usizes(nouts),
                           !.params = params,
                           !.callee = 5],
      Node(callee)>>

Callees == {"FuncDecl", "FuncDefn", "Const"}

LowerIn(c, h, vals, debug_assertions) ==
    (CHOOSE y \in {IF args.st # "ok" THEN Fail(args) ELSE
        emit_func(h, args.cx, 1, args.val)
       : args \in {Constants([c EXCEPT !.debug_assertions = debug_assertions], vals, <<>>)}} : TRUE)

Lower(h, vals, debug_assertions) == LowerIn(cx, h, vals, debug_assertions)

(* The values the caller passes for the function's parameters: pairwise    *)
(* distinct, so that a value identifies the parameter it came from.  A     *)
(* Conditional or CFG is lowered with no value passed alongside the sum    *)
(* and with MaxPass of them.                                               *)
Params(from, n) == [k \in 1..n |-> from + k]

EmitConditional ==
    /\ phase = "emit" /\ lowered.kind = "none"
    /\ \E rows \in SumTypes, tag \in Tags, ncases \in 0..MaxVariants,
          npass \in {0, MaxPass}, debug_assertions \in BOOLEAN :
          /\ tag < Len(rows)
          /\ \E vals \in {Params(0, Len(rows[tag + 1]))} :
             \E rest \in {Params(Len(vals), npass)} :
             \E r \in {Lower(ConditionalHugr(rows, tag, ncases, npass),
                             vals \o rest, debug_assertions)} :
                 /\ cx' = r.cx
                 /\ lowered' = [lowered EXCEPT !.kind = "cond", !.st = r.st,
                                               !.err = r.err, !.rows = rows,
                                               !.tag = tag, !.vals = vals,
                                               !.rest = rest, !.ncases = ncases,
                                               !.pre = Len(cx.blocks)]
    /\ UNCHANGED <<phase, pc, env, mem, visited, outsideEmit>>

EmitCfg ==
    /\ phase = "emit" /\ lowered.kind = "none"
    /\ \E row \in Rows, nsucc \in 1..MaxVariants, tag \in Tags,
          npass \in {0, MaxPass}, debug_assertions \in BOOLEAN :
          /\ tag < nsucc
          /\ \E vals \in {Params(0, Len(row))} :
             \E rest \in {Params(Len(vals), npass)} :
             \E r \in {Lower(CfgHugr(row, nsucc, tag, npass),
                             vals \o rest, debug_assertions)} :
                 /\ cx' = r.cx
                 /\ lowered' = [lowered EXCEPT !.kind = "cfg", !.st = r.st,
                                               !.err = r.err,
                                               !.rows = [k \in 1..nsucc |-> row],
                                               !.tag = tag, !.vals = vals,
                                               !.rest = rest, !.nsucc = nsucc,
                                               !.pre = Len(cx.blocks)]
    /\ UNCHANGED <<phase, pc, env, mem, visited, outsideEmit>>

EmitCall ==
    /\ phase = "emit" /\ lowered.kind = "none"
    /\ \E callee \in Callees, params \in 0..1, nouts \in 0..MaxRowLen,
          nargs \in 0..MaxPass, debug_assertions \in BOOLEAN :
          \E vals \in {Params(0, nargs)} :
          \E r \in {Lower(CallHugr(callee, params, nargs, nouts),
                          vals, debug_assertions)} :
              /\ cx' = r.cx
              /\ lowered' = [lowered EXCEPT !.kind = "call", !.st = r.st,
                                            !.err = r.err, !.vals = vals,
                                            !.params = params, !.nouts = nouts,
                                            !.callee = callee,
                                            !.pre = Len(cx.blocks)]
    /\ UNCHANGED <<phase, pc, env, mem, visited, outsideEmit>>

(* The lowered function is executed as the release build has emitted it: *)
(* the debug build emits the same function, or panics.                    *)
RunEmit ==
    Run /\ lowered.st = "ok" /\ ~cx.debug_assertions /\ UNCHANGED <<emitVars, outsideEmit>>

StepEmit == Step /\ UNCHANGED <<emitVars, outsideEmit>>

InitEmit == InitIR /\ InitSumVars /\ InitSessionVars /\ InitRmbVars /\ InitEmitVars /\ InitUtilVars

NextEmit ==
    \/ EmitConditional
    \/ EmitCfg
    \/ EmitCall
    \/ RunEmit
    \/ StepEmit

SpecEmit == InitEmit /\ [][NextEmit]_vars

-----------------------------------------------------------------------------
(* Claims about the region emitters *)

Notes(ev) == {k \in 1..Len(cx.log) : cx.log[k].ev = ev}

Entered(bb) == Cardinality({p \in 1..Len(visited) : visited[p] = bb})

HasInstr(op) ==
    \E bb \in 1..Len(cx.blocks) : \E ip \in 1..Len(cx.blocks[bb]) :
        cx.blocks[bb][ip].op = op

ArityErrors == ShapeErrors \cup {"RowMailBox::write: wrong number of values"}

ArityMismatch ==
    /\ lowered.kind = "cond"
    /\ lowered.ncases # Len(lowered.rows)

(* C7 (as claimed): lowering a Conditional whose number of case children   *)
(* differs from the number of variants of its selector sum type fails with *)
(* a ShapeError; it never succeeds while silently dropping a case.         *)
C7_ArityMismatchFails ==
    ArityMismatch => (lowered.st = "err" /\ lowered.err \in ArityErrors)

(* The state that refutes it: 2 cases, a 3-variant selector, Ok(()).       *)
C7_DroppedCase ==
    /\ ArityMismatch
    /\ lowered.ncases < Len(lowered.rows)
    /\ lowered.st = "ok"
    /\ phase = "done"
    /\ lowered.tag >= lowered.ncases
    /\ \E k \in Notes("case") : cx.log[k].i = 0 /\ Entered(cx.log[k].bb) = 1

TwoBlockCfg ==
    /\ lowered.kind = "cfg"
    /\ lowered.nsucc = 1

RowsAgree ==
    phase = "done" =>
        /\ \A k \in Notes("exit") : RegVals(cx.log[k].regs) = lowered.vals \o lowered.rest
        /\ \A k \in Notes("edge") : RegVals(cx.log[k].regs) = lowered.vals \o lowered.rest

PreAllocated == Len(CfgHugr(<<>>, 1, 0, 0)[4].children)

(* C8 (amended): for a CFG region with only an entry block and the exit    *)
(* block, where the entry's control sum has one variant, lowering succeeds, *)
(* the row read in the exit block equals exactly the row written by the    *)
(* entry, and lowering creates exactly one basic block besides the ones    *)
(* pre-allocated for the entry and the exit children: the block of the     *)
(* entry's one successor edge.                                             *)
C8_TwoBlockCfg ==
    TwoBlockCfg =>
        /\ lowered.st = "ok"
        /\ RowsAgree
        /\ Len(cx.blocks) = lowered.pre + PreAllocated + lowered.nsucc

C8_Witness ==
    /\ TwoBlockCfg
    /\ phase = "done"
    /\ lowered.vals = <<1, 2>> /\ lowered.rest = <<3>>
    /\ \E k \in Notes("exit") : RegVals(cx.log[k].regs) = <<1, 2, 3>>
    /\ \E k \in Notes("edge") : Entered(cx.log[k].bb) = 1

(* C8 (as claimed): ... and lowering creates no basic block other than the *)
(* ones pre-allocated for the entry and the exit children.                 *)
C8_NoOtherBlock ==
    TwoBlockCfg =>
        /\ lowered.st = "ok"
        /\ RowsAgree
        /\ Len(cx.blocks) = lowered.pre + PreAllocated

GenericCall ==
    /\ lowered.kind = "call"
    /\ lowered.params > 0

(* C9 (as claimed): lowering a Call node whose called function type has at *)
(* least one type parameter returns an UnsupportedConstruct error to the   *)
(* caller; it neither emits a call instruction nor aborts the process.     *)
C9_GenericCallUnsupported ==
    GenericCall =>
        /\ lowered.st = "err"
        /\ lowered.err = "UnsupportedConstruct"
        /\ ~HasInstr("call")

(* The state that refutes it: the lowering panicked. *)
C9_Aborted ==
    /\ GenericCall
    /\ lowered.st = "panic"
    /\ ~HasInstr("call")

CaseSplit ==
    /\ lowered.kind = "cond"
    /\ lowered.ncases = Len(lowered.rows)

C10_WitnessEmptyRow ==
    /\ CaseSplit
    /\ phase = "done"
    /\ lowered.rows = <<<<>>, <<usize_t>>>>
    /\ lowered.tag = 0
    /\ \E k \in Notes("case") :
           /\ cx.log[k].i = 0
           /\ Entered(cx.log[k].bb) = 1
           /\ cx.log[k].regs = <<>>

-----------------------------------------------------------------------------
(* utils/type_map.rs and type_map.rs: the generic type mappers.  A hugr    *)
(* type is a leaf custom type, a sum of rows, a function type, or another  *)
(* shape (a type variable, a row variable, an alias).                      *)

FuncType(inputs, outputs) == [k |-> "Function", key |-> <<>>, rows |-> <<inputs, outputs>>]

VarType == [k |-> "Variable", key |-> <<>>, rows |-> <<>>]

VoidTy == LeafTy("void")

FnTy(ret, params) == [k |-> "fn", fs |-> <<ret>> \o params]

PtrTy(ty) == [k |-> "ptr", fs |-> <<ty>>]

(* Context::struct_type of a named struct: a new type at every request. *)
struct_type_named(ctx, fs) ==
    Ok(ctx \cup {[k |-> "struct." \o ToString(Cardinality(ctx)), fs |-> fs]},
       [k |-> "struct." \o ToString(Cardinality(ctx)), fs |-> fs])

(* Context::struct_type(fields, false): the literal struct type, uniqued   *)
(* in the LLVM context ctx (the set of struct types created so far).       *)
struct_type(ctx, fs) == Ok(ctx \cup {StructTy(fs)}, StructTy(fs))

(* custom/types.rs: LLVMTypeMapping::map_sum_type, by LLVMSumType::try_new2 *)
RECURSIVE variant_structs(_, _, _)
variant_structs(ctx, variants, acc) ==
    IF variants = <<>> THEN Ok(ctx, acc)
    ELSE (CHOOSE y \in {variant_structs(s.cx, Tail(variants), Append(acc, s.val))
            : s \in {struct_type(ctx, Head(variants))}} : TRUE)

LLVMTypeMapping_map_sum_type(ctx, sum_type, variants) ==
    (CHOOSE y \in {struct_type(rows.cx,
                       (IF sum_type_has_tag_field(sum_type) THEN <<IntTy>> ELSE <<>>)
                           \o rows.val)
       : rows \in {variant_structs(ctx, variants, <<>>)}} : TRUE)

(* custom/types.rs: LLVMTypeMapping::map_function_type and func_into_out *)
LLVMTypeMapping_map_function_type(ctx, inputs, outputs) ==
    CASE Len(outputs) = 0 -> Ok(ctx, FnTy(VoidTy, inputs))
      [] Len(outputs) = 1 -> Ok(ctx, FnTy(outputs[1], inputs))
      [] OTHER ->
            (CHOOSE y \in {Ok(s.cx, FnTy(s.val, inputs))
               : s \in {struct_type(ctx, outputs)}} : TRUE)

func_into_out(func) == PtrTy(func)

default_out(ctx, hugr_type) == Err(ctx, "Unknown type")

RECURSIVE TypeMap_map_type(_, _, _)

(* The fields of one row, mapped in order; the first failure is returned. *)
RECURSIVE map_row(_, _, _, _)
map_row(hooks, ctx, tr, acc) ==
    IF tr = <<>> THEN Ok(ctx, acc)
    ELSE (CHOOSE y \in {IF t.st # "ok" THEN Fail(t) ELSE
             map_row(hooks, t.cx, Tail(tr), Append(acc, t.val))
            : t \in {TypeMap_map_type(hooks, ctx, Head(tr))}} : TRUE)

RECURSIVE map_variants(_, _, _, _)
map_variants(hooks, ctx, rows, acc) ==
    IF rows = <<>> THEN Ok(ctx, acc)
    ELSE (CHOOSE y \in {IF row.st # "ok" THEN Fail(row) ELSE
             map_variants(hooks, row.cx, Tail(rows), Append(acc, row.val))
            : row \in {map_row(hooks, ctx, Head(rows), <<>>)}} : TRUE)

TypeMap_map_sum_type(hooks, ctx, sum_type) ==
    (CHOOSE y \in {IF variants.st # "ok" THEN Fail(variants) ELSE
        LLVMTypeMapping_map_sum_type(variants.cx, sum_type, variants.val)
       : variants \in {map_variants(hooks, ctx, sum_type, <<>>)}} : TRUE)

TypeMap_map_function_type(hooks, ctx, func_type) ==
    (CHOOSE y \in {IF inputs.st # "ok" THEN Fail(inputs) ELSE
        (CHOOSE y \in {IF outputs.st # "ok" THEN Fail(outputs) ELSE
            LLVMTypeMapping_map_function_type(outputs.cx, inputs.val, outputs.val)
           : outputs \in {map_row(hooks, inputs.cx, func_type[2], <<>>)}} : TRUE)
       : inputs \in {map_row(hooks, ctx, func_type[1], <<>>)}} : TRUE)

TypeMap_map_type(hooks, ctx, hugr_type) ==
    CASE hugr_type.k = "Extension" ->
            IF hugr_type.key \notin DOMAIN hooks THEN default_out(ctx, hugr_type)
            ELSE TypeHandler(hooks[hugr_type.key], ctx)
      [] hugr_type.k = "Sum" -> TypeMap_map_sum_type(hooks, ctx, hugr_type.rows)
      [] hugr_type.k = "Function" ->
            (CHOOSE y \in {IF f.st # "ok" THEN Fail(f) ELSE Ok(f.cx, func_into_out(f.val))
               : f \in {TypeMap_map_function_type(hooks, ctx, hugr_type.rows)}} : TRUE)
      [] OTHER -> default_out(ctx, hugr_type)

(* type_map.rs: TypeMap::map, the mapper of the per-type hooks (definition *)
(* hooks, destructors).  Its result is an Option: None when the type has   *)
(* no hook.                                                                *)
RECURSIVE TypeMap_map(_, _, _)

RECURSIVE hook_row(_, _, _, _)
hook_row(hooks, ctx, tr, acc) ==
    IF tr = <<>> THEN Ok(ctx, acc)
    ELSE (CHOOSE y \in {IF t.st # "ok" THEN Fail(t) ELSE
             hook_row(hooks, t.cx, Tail(tr), Append(acc, t.val))
            : t \in {TypeMap_map(hooks, ctx, Head(tr))}} : TRUE)

RECURSIVE hook_variants(_, _, _, _)
hook_variants(hooks, ctx, rows, acc) ==
    IF rows = <<>> THEN Ok(ctx, acc)
    ELSE (CHOOSE y \in {IF row.st # "ok" THEN Fail(row) ELSE
             hook_variants(hooks, row.cx, Tail(rows), Append(acc, row.val))
            : row \in {hook_row(hooks, ctx, Head(rows), <<>>)}} : TRUE)

(* type_map/destructor.rs: no destructor when no field has one, otherwise  *)
(* the destructor of the sum, which calls the fields' destructors.         *)
aggregate_variants(sum_type, variants) ==
    IF \A i \in 1..Len(variants) : \A j \in 1..Len(variants[i]) : ~variants[i][j].some
    THEN None
    ELSE Some([k |-> "destructor", fs |-> variants])

TypeMap_custom_type(hooks, ctx, custom_type) ==
    IF custom_type.key \notin DOMAIN hooks THEN Ok(ctx, None)
    ELSE (CHOOSE y \in {IF r.st # "ok" THEN Fail(r) ELSE Ok(r.cx, Some(r.val))
            : r \in {TypeHandler(hooks[custom_type.key], ctx)}} : TRUE)

TypeMap_sum_type(hooks, ctx, sum_type) ==
    (CHOOSE y \in {IF variants.st # "ok" THEN Fail(variants) ELSE
        Ok(variants.cx, aggregate_variants(sum_type, variants.val))
       : variants \in {hook_variants(hooks, ctx, sum_type, <<>>)}} : TRUE)

TypeMap_map(hooks, ctx, hugr_type) ==
    CASE hugr_type.k = "Extension" -> TypeMap_custom_type(hooks, ctx, hugr_type)
      [] hugr_type.k = "Sum" -> TypeMap_sum_type(hooks, ctx, hugr_type.rows)
      [] OTHER -> Err(ctx, "unsupported type")

-----------------------------------------------------------------------------
(* The type mappers driven over one compilation: the hooks are set first,  *)
(* then types are mapped with the registry fixed.                          *)

TypeKeys == {<<"prelude", "usize">>, <<"a", "b">>}

(* "H0" names a hook that fails. *)
Hooks == {"H1", "H0"}

LeafTypes == {CustomType(key) : key \in TypeKeys} \cup {VarType}

(* The composite shapes over the types of S. *)
Composites(S) ==
    {SumType(<<<<a>>>>) : a \in S}
        \cup {SumType(<<<<>>, <<usize_t, a>>>>) : a \in S}
        \cup {FuncType(<<a>>, <<>>) : a \in S}
        \cup {FuncType(<<usize_t>>, <<a, usize_t>>) : a \in S}

Nested(S) ==
    {SumType(<<<<a>>, <<>>>>) : a \in S} \cup {FuncType(<<>>, <<a>>) : a \in S}

HugrTypes == LeafTypes \cup Composites(LeafTypes) \cup Nested(Composites(LeafTypes))

(* The LLVM context when the next mapping starts. *)
Context == IF mapped = <<>> THEN {} ELSE mapped[Len(mapped)].cx

Mapping(by, hugr_type, r) ==
    [by |-> by, typ |-> hugr_type, st |-> r.st, err |-> r.err, val |-> r.val,
     cx |-> r.cx]

set_callback(custom_type_key, hook) ==
    /\ mapped = <<>>
    /\ Len(reglog) < MaxRegs
    /\ types' = insert(types, custom_type_key, hook)
    /\ reglog' = Append(reglog, Registration("type", custom_type_key[1],
                                             custom_type_key[2], hook))
    /\ UNCHANGED <<ops, consts, looked, loaded, mapped>>

MapType(hugr_type) ==
    /\ Len(mapped) < 2
    /\ mapped' = Append(mapped, Mapping("map_type", hugr_type,
                                        TypeMap_map_type(types, Context, hugr_type)))
    /\ UNCHANGED regVars

Map(hugr_type) ==
    /\ Len(mapped) < 2
    /\ mapped' = Append(mapped, Mapping("map", hugr_type,
                                        TypeMap_map(types, Context, hugr_type)))
    /\ UNCHANGED regVars

outsideTypes == <<irVars, sumVars, rmbVars, emitVars, hugr, module, flat,
                   builders, closure>>

InitTypes == InitIR /\ InitSumVars /\ InitRegVars /\ InitRmbVars /\ InitEmitVars /\ InitUtilVars

NextTypes ==
    \/ \E key \in TypeKeys, hook \in Hooks :
           set_callback(key, hook) /\ UNCHANGED outsideTypes
    \/ \E t \in HugrTypes : MapType(t) /\ UNCHANGED outsideTypes
    \/ \E t \in HugrTypes : Map(t) /\ UNCHANGED outsideTypes

SpecTypes == InitTypes /\ [][NextTypes]_vars

-----------------------------------------------------------------------------
(* Claims about the type mappers *)

(* What the claim says a type maps to under the hooks: the handler's       *)
(* result for a leaf, and composites from the mappings of their parts.     *)
RECURSIVE Mappable(_, _)
Mappable(hooks, t) ==
    CASE t.k = "Extension" ->
            t.key \in DOMAIN hooks /\ TypeHandler(hooks[t.key], {}).st = "ok"
      [] t.k \in {"Sum", "Function"} ->
            \A i \in 1..Len(t.rows) : \A j \in 1..Len(t.rows[i]) :
                Mappable(hooks, t.rows[i][j])
      [] OTHER -> FALSE

RECURSIVE Denotes(_, _)
Denotes(hooks, t) ==
    CASE t.k = "Extension" -> TypeHandler(hooks[t.key], {}).val
      [] t.k = "Sum" ->
            StructTy((IF Len(t.rows) >= 2 THEN <<IntTy>> ELSE <<>>)
                     \o [i \in 1..Len(t.rows) |->
                            StructTy([j \in 1..Len(t.rows[i]) |->
                                         Denotes(hooks, t.rows[i][j])])])
      [] OTHER ->
            LET ins == [j \in 1..Len(t.rows[1]) |-> Denotes(hooks, t.rows[1][j])]
                outs == [j \in 1..Len(t.rows[2]) |-> Denotes(hooks, t.rows[2][j])]
            IN  PtrTy(FnTy(CASE Len(outs) = 0 -> VoidTy
                             [] Len(outs) = 1 -> outs[1]
                             [] OTHER -> StructTy(outs),
                           ins))

Dispatched(e) ==
    IF Mappable(types, e.typ)
    THEN e.st = "ok" /\ e.val = Denotes(types, e.typ)
    ELSE e.st = "err"

(* C12 (as claimed): every mapping of either type mapper yields the        *)
(* handler's result for a registered leaf type, an error for an            *)
(* unregistered leaf type or a failing handler, the composition of the     *)
(* parts' mappings for a sum or a function type, and an error for any      *)
(* other shape.                                                            *)
C12_TypeDispatch ==
    \A k \in 1..Len(mapped) : Dispatched(mapped[k])

(* C12: TypeMap::map_type of utils/type_map.rs dispatches as claimed.      *)
C12_MapTypeDispatch ==
    \A k \in 1..Len(mapped) : mapped[k].by = "map_type" => Dispatched(mapped[k])

(* The hook mapper of type_map.rs has no error for a leaf type without a   *)
(* hook and none of the claimed composition for a function type.           *)
C12_HookMapperDiverges ==
    /\ Len(mapped) = 2
    /\ types = (<<"prelude", "usize">> :> "H1")
    /\ mapped[1].by = "map"
    /\ mapped[1].typ = CustomType(<<"a", "b">>)
    /\ mapped[1].st = "ok"
    /\ mapped[1].val = None
    /\ mapped[2].by = "map"
    /\ mapped[2].typ = FuncType(<<usize_t>>, <<>>)
    /\ mapped[2].st = "err"

(* C13: with the registry fixed, two mappings of the same type by the same *)
(* mapper have the same result, whatever was mapped in between and         *)
(* whatever the LLVM context held when each started.                       *)
C13_Deterministic ==
    \A j, k \in 1..Len(mapped) :
        (mapped[j].by = mapped[k].by /\ mapped[j].typ = mapped[k].typ) =>
            /\ mapped[j].st = mapped[k].st
            /\ mapped[j].err = mapped[k].err
            /\ mapped[j].val = mapped[k].val

C13_Witness ==
    /\ Len(mapped) = 2
    /\ mapped[1].by = "map_type" /\ mapped[2].by = "map_type"
    /\ mapped[1].typ = SumType(<<<<>>, <<usize_t, CustomType(<<"a", "b">>)>>>>)
    /\ mapped[2].typ = mapped[1].typ
    /\ mapped[1].st = "ok"
    /\ mapped[1].val = StructTy(<<IntTy, StructTy(<<>>),
                                  StructTy(<<LeafTy("i64"), LeafTy("i64")>>)>>)
    /\ mapped[2].val = mapped[1].val
    /\ mapped[1].cx # {}


-----------------------------------------------------------------------------
(* Claims about loading extension constants *)

(* The registrations of a constant kind that preceded the last load. *)
ConstRegsOf(kind) ==
    {i \in 1..loaded.vals[1] : reglog[i].kind = "const" /\ reglog[i].ext = kind}

(* C15: loading an extension constant returns what the handler registered  *)
(* for the constant's kind returns for it; when no handler is registered   *)
(* for that kind the result is a LookupError and no value.                 *)
C15_LoadConstant ==
    loaded.called =>
        LET konst == loaded.args[1]
            regs == ConstRegsOf(type_id(konst))
        IN  IF regs = {}
            THEN /\ loaded.st = "err"
                 /\ loaded.err = "Unknown CustomConst"
                 /\ loaded.val = <<>>
            ELSE LET r == LoadConstHandler_load_constant(reglog[LastOf(regs)].h, konst)
                 IN  /\ loaded.st = r.st
                     /\ loaded.err = r.err
                     /\ loaded.val = r.val

(* A handler is registered for ConstUsize only; a ConstUsize constant is   *)
(* loaded by it.                                                           *)
C15_Witness ==
    /\ loaded.called
    /\ consts = ("ConstUsize" :> "H1")
    /\ loaded.args[1] = Konst("ConstUsize", 2)
    /\ loaded.st = "ok"
    /\ loaded.val = <<"const_int", 2>>

(* A handler is registered, but for another kind than the loaded one.      *)
C15_WitnessOtherKind ==
    /\ loaded.called
    /\ consts = ("ConstUsize" :> "H1")
    /\ loaded.args[1] = Konst("ConstExternalSymbol", 1)
    /\ loaded.st = "err"

-----------------------------------------------------------------------------
(* qir-plugin/src/flatten.rs: the flattened view of an LLVM aggregate type *)

MaxArrayLen == 2

ArrayTy(elem, n) == [k |-> "array", fs |-> <<elem>>, len |-> n]

(* enum FlattenType *)
FlattenType_Leaf(ty) == [k |-> "Leaf", ty |-> ty]

FlattenType_Struct(ty, len, flat_tys) ==
    [k |-> "Struct", ty |-> ty, len |-> len, flat_tys |-> flat_tys]

FlattenType_Array(ty, el) == [k |-> "Array", ty |-> ty, el |-> el]

RECURSIVE SumSeq(_)
SumSeq(q) == IF q = <<>> THEN 0 ELSE Head(q) + SumSeq(Tail(q))

(* iter.flatten().collect_vec() *)
RECURSIVE Flatten(_)
Flatten(qq) == IF qq = <<>> THEN <<>> ELSE Head(qq) \o Flatten(Tail(qq))

RECURSIVE flat_len(_)
flat_len(ft) ==
    CASE ft.k = "Leaf"   -> 1
      [] ft.k = "Struct" -> ft.len
      [] ft.k = "Array"  -> flat_len(ft.el) * ft.ty.len

RECURSIVE FlattenType_new(_)
FlattenType_new(ty) ==
    IF ty.k = "struct"
    THEN FlattenType_Struct(ty,
             SumSeq([i \in 1..Len(ty.fs) |-> flat_len(FlattenType_new(ty.fs[i]))]),
             [i \in 1..Len(ty.fs) |-> FlattenType_new(ty.fs[i])])
    ELSE IF ty.k = "array"
    THEN FlattenType_Array(ty, FlattenType_new(ty.fs[1]))
    ELSE FlattenType_Leaf(ty)

(* A variant that lists an array's element leaves once *)
RECURSIVE flat_types_array_once(_)
flat_types_array_once(ft) ==
    CASE ft.k = "Leaf"   -> <<ft.ty>>
      [] ft.k = "Struct" ->
            Flatten([i \in 1..Len(ft.flat_tys) |-> flat_types_array_once(ft.flat_tys[i])])
      [] ft.k = "Array"  -> flat_types_array_once(ft.el)

RECURSIVE flat_types(_)
flat_types(ft) ==
    CASE ft.k = "Leaf"   -> <<ft.ty>>
      [] ft.k = "Struct" ->
            Flatten([i \in 1..Len(ft.flat_tys) |-> flat_types(ft.flat_tys[i])])
      [] ft.k = "Array"  ->
            Flatten([i \in 1..ft.ty.len |-> flat_types(ft.el)])

(* The LLVM types flattened: leaves, and two levels of structs and arrays *)
FlatLeaves == {LeafTy("i32"), LeafTy("double")}

Aggregates(S) ==
    {StructTy(fs) : fs \in SeqsUpTo(S, MaxRowLen)}
        \cup {ArrayTy(e, n) : e \in S, n \in 0..MaxArrayLen}

FlatInputs == Aggregates(FlatLeaves \cup Aggregates(FlatLeaves)) \cup FlatLeaves

FlattenAction(ty) ==
    /\ flat.st = "none"
    /\ flat' = [st |-> "ok", ty |-> ty,
                len |-> flat_len(FlattenType_new(ty)),
                types |-> flat_types(FlattenType_new(ty))]

outsideFlat == <<irVars, sumVars, regVars, rmbVars, emitVars, mapped, hugr, module,
                  builders, closure>>

InitFlat == InitIR /\ InitSumVars /\ InitRegVars /\ InitRmbVars /\ InitEmitVars /\ InitUtilVars

NextFlat == \E ty \in FlatInputs : FlattenAction(ty) /\ UNCHANGED outsideFlat

SpecFlat == InitFlat /\ [][NextFlat]_vars

(* Claims about flattening *)

(* The positions of the leaves of an LLVM type: the field and element      *)
(* indices on the way from the root to the leaf.                           *)
RECURSIVE LeafPaths(_)
LeafPaths(ty) ==
    CASE ty.k = "struct" ->
            UNION {{<<i>> \o p : p \in LeafPaths(ty.fs[i])} : i \in 1..Len(ty.fs)}
      [] ty.k = "array"  -> {<<i>> \o p : i \in 1..ty.len, p \in LeafPaths(ty.fs[1])}
      [] OTHER           -> {<<>>}

RECURSIVE TypeAt(_, _)
TypeAt(ty, p) ==
    IF p = <<>> THEN ty
    ELSE IF ty.k = "array" THEN TypeAt(ty.fs[1], Tail(p))
    ELSE TypeAt(ty.fs[Head(p)], Tail(p))

(* depth-first order of two distinct leaf positions *)
Before(p, q) ==
    \E i \in 1..Len(p) :
        /\ i <= Len(q)
        /\ p[i] < q[i]
        /\ \A j \in 1..(i - 1) : p[j] = q[j]

Rank(P, p) == Cardinality({q \in P : Before(q, p)}) + 1

(* C19: flat_types lists the leaves of the type in depth-first field order, *)
(* an array's element leaves once per element, and the list's length is    *)
(* flat_len.                                                               *)
C19_FlatTypes ==
    flat.st = "ok" =>
        /\ Len(flat.types) = Cardinality(LeafPaths(flat.ty))
        /\ \A p \in LeafPaths(flat.ty) :
               flat.types[Rank(LeafPaths(flat.ty), p)] = TypeAt(flat.ty, p)
        /\ flat.len = Len(flat.types)

(* { {i32}, [2 x double] }: the array's leaf appears once per element      *)
C19_Witness ==
    /\ flat.st = "ok"
    /\ flat.ty = StructTy(<<StructTy(<<LeafTy("i32")>>), ArrayTy(LeafTy("double"), 2)>>)
    /\ flat.types = <<LeafTy("i32"), LeafTy("double"), LeafTy("double")>>
    /\ flat.len = 3

-----------------------------------------------------------------------------
(* The module context's external symbol table (EmitModuleContext).  The    *)
(* module holds its function declarations in order; a function value is    *)
(* the position of its declaration, with its name and type.                *)

MaxRequests == 3

FunctionValue(mod, i) == [id |-> i, name |-> mod[i].name, ty |-> mod[i].ty]

(* Module::get_function: the declaration of that name, if any *)
get_function(mod, name) ==
    IF \E i \in 1..Len(mod) : mod[i].name = name
    THEN Some(FunctionValue(mod, CHOOSE i \in 1..Len(mod) : mod[i].name = name))
    ELSE None

(* Module::add_function *)
add_function(mod, name, func_ty) == Append(mod, [name |-> name, ty |-> func_ty])

(* A variant that declares a function at every request *)
get_extern_func_always_add(mod, symbol, typ) ==
    Ok(add_function(mod, symbol, typ),
       FunctionValue(add_function(mod, symbol, typ), Len(mod) + 1))

(* The result's cx is the module after the request. *)
get_extern_func(mod, symbol, typ) ==
    (CHOOSE y \in {
        IF found = None
        THEN Ok(add_function(mod, symbol, typ),
                FunctionValue(add_function(mod, symbol, typ), Len(mod) + 1))
        ELSE IF found.v.ty # typ
        THEN Err(mod, "Function has wrong type")
        ELSE Ok(mod, found.v)
       : found \in {get_function(mod, symbol)}} : TRUE)

Symbols == {"foo", "__quantum__qis__h__body"}

FuncTypes ==
    {FnTy(LeafTy("i32"), <<>>), FnTy(LeafTy("double"), <<>>), FnTy(VoidTy, <<LeafTy("i16")>>)}

GetExternFunc(symbol, typ) ==
    /\ Len(module.log) < MaxRequests
    /\ module' = [funcs |-> get_extern_func(module.funcs, symbol, typ).cx,
                  log |-> Append(module.log,
                     [name |-> symbol, ty |-> typ, before |-> module.funcs,
                      st |-> get_extern_func(module.funcs, symbol, typ).st,
                      val |-> get_extern_func(module.funcs, symbol, typ).val,
                      after |-> get_extern_func(module.funcs, symbol, typ).cx])]

outsideModule == <<irVars, sumVars, regVars, rmbVars, emitVars, mapped, hugr, flat,
                    builders, closure>>

InitModule == InitIR /\ InitSumVars /\ InitRegVars /\ InitRmbVars /\ InitEmitVars /\ InitUtilVars

NextModule ==
    \E symbol \in Symbols, typ \in FuncTypes :
        GetExternFunc(symbol, typ) /\ UNCHANGED outsideModule

SpecModule == InitModule /\ [][NextModule]_vars

(* Claims about the external symbol table *)

(* The earlier requests for the same name. *)
Earlier(i) == {j \in 1..(i - 1) : module.log[j].name = module.log[i].name}

First(S) == CHOOSE j \in S : \A k \in S : j <= k

(* C17: the first request for a name declares the function under exactly   *)
(* that name; a later request with the same name and type returns the same *)
(* function and declares nothing; a later request with the same name and   *)
(* another type is an error and leaves the declarations unchanged.         *)
C17_GetExternFunc ==
    \A i \in 1..Len(module.log) :
        LET e == module.log[i]
        IN  IF Earlier(i) = {}
            THEN /\ e.st = "ok"
                 /\ e.val.name = e.name
                 /\ e.val.ty = e.ty
                 /\ e.after = Append(e.before, [name |-> e.name, ty |-> e.ty])
            ELSE IF module.log[First(Earlier(i))].ty = e.ty
            THEN /\ e.st = "ok"
                 /\ e.val = module.log[First(Earlier(i))].val
                 /\ e.after = e.before
            ELSE /\ e.st = "err"
                 /\ e.after = e.before

(* The test's scenario: foo at type 1, foo at type 1 again, foo at type 2  *)
C17_Witness ==
    /\ Len(module.log) = 3
    /\ \A i \in 1..3 : module.log[i].name = "foo"
    /\ module.log[1].ty = FnTy(LeafTy("i32"), <<>>)
    /\ module.log[2].ty = FnTy(LeafTy("i32"), <<>>)
    /\ module.log[3].ty = FnTy(LeafTy("double"), <<>>)
    /\ module.log[2].val = module.log[1].val
    /\ module.log[3].st = "err"
    /\ Len(module.funcs) = 1

-----------------------------------------------------------------------------
(* utils/inline_constant_functions.rs.  A hugr is the sequence of its      *)
(* nodes, a node's index its position; a removed node leaves its position  *)
(* empty.  `from` is the node whose output port feeds the node's port 0.   *)

MaxConsts == 2
MaxLoads == 1

HugrNode(op, value, from) == [op |-> op, value |-> value, from |-> from]

Removed == HugrNode("Removed", <<>>, 0)

(* enum Value: a function value holds a hugr, given by its root operation  *)
(* and the constants its body holds, each with its number of LoadConstants *)
Value_Extension == [k |-> "Extension", root |-> "", body |-> <<>>]

Value_Function(root, body) == [k |-> "Function", root |-> root, body |-> body]

Value_Tuple(vs) == [k |-> "Tuple", root |-> "", body |-> vs]

BodyConst(value, loads) == [value |-> value, loads |-> loads]

(* builder.add_constant, then `loads` times load_const and `others` other  *)
(* nodes attached to the constant's output                                 *)
add_constant(nodes, value, loads, others) ==
    nodes \o <<HugrNode("Const", value, 0)>>
          \o [i \in 1..loads |-> HugrNode("LoadConstant", <<>>, Len(nodes) + 1)]
          \o [i \in 1..others |-> HugrNode("Call", <<>>, Len(nodes) + 1)]

RECURSIVE add_body(_, _)
add_body(nodes, body) ==
    IF body = <<>> THEN nodes
    ELSE add_body(add_constant(nodes, Head(body).value, Head(body).loads, 0), Tail(body))

(* HugrMut::insert_hugr under the root: the function definition, the DFG   *)
(* it wraps if any, and the nodes of its body                              *)
insert_hugr(nodes, func_hugr) ==
    [new_root |-> Len(nodes) + 1,
     nodes |-> add_body(
         nodes \o <<HugrNode("FuncDefn", func_hugr.name, 0)>>
               \o (IF func_hugr.dfg THEN <<HugrNode("DFG", <<>>, 0)>> ELSE <<>>),
         func_hugr.body)]

RECURSIVE SortedSeq(_)
SortedSeq(S) ==
    IF S = {} THEN <<>>
    ELSE <<CHOOSE x \in S : \A y \in S : x <= y>>
            \o SortedSeq(S \ {CHOOSE x \in S : \A y \in S : x <= y})

output_neighbours(nodes, n) == SortedSeq({m \in 1..Len(nodes) : nodes[m].from = n})

const_fn_name(konst_n) == <<"const_fun", konst_n>>

(* lines 30-69: the function constants, their function hugrs and their     *)
(* LoadConstant nodes                                                      *)
RECURSIVE const_funs(_, _, _)
const_funs(nodes, n, acc) ==
    IF n > Len(nodes) THEN Ok(nodes, acc)
    ELSE IF nodes[n].op # "Const" \/ nodes[n].value.k # "Function"
    THEN const_funs(nodes, n + 1, acc)
    ELSE IF nodes[n].value.root \notin {"FuncDefn", "DFG"}
    THEN Err(nodes, "Constant function has unsupported root")
    ELSE IF \E m \in 1..Len(nodes) : nodes[m].from = n /\ nodes[m].op # "LoadConstant"
    THEN Err(nodes, "Constant function has non-LoadConstant output-neighbour")
    ELSE const_funs(nodes, n + 1,
             Append(acc, [konst_n |-> n,
                          func_hugr |-> [name |-> IF nodes[n].value.root = "DFG"
                                                  THEN const_fn_name(n) ELSE <<"f">>,
                                         dfg |-> nodes[n].value.root = "DFG",
                                         body |-> nodes[n].value.body],
                          lcs |-> output_neighbours(nodes, n)]))

Range(q) == {q[i] : i \in 1..Len(q)}

(* lines 77-84: every LoadConstant becomes a LoadFunction of the new node  *)
replace_ops(nodes, lcs, func_node) ==
    [m \in 1..Len(nodes) |-> IF m \in Range(lcs)
                              THEN HugrNode("LoadFunction", <<>>, func_node)
                              ELSE nodes[m]]

remove_node(nodes, n) == [nodes EXCEPT ![n] = Removed]

(* A variant that reports a change for a loaded function constant and     *)
(* leaves the constant and its loads as they are                           *)
RECURSIVE rewrite_const_funs_kept(_, _, _)
rewrite_const_funs_kept(nodes, funs, any_changes) ==
    IF funs = <<>> THEN Ok(nodes, any_changes)
    ELSE IF Head(funs).lcs # <<>>
    THEN rewrite_const_funs_kept(nodes, Tail(funs), TRUE)
    ELSE rewrite_const_funs_kept(remove_node(nodes, Head(funs).konst_n), Tail(funs), any_changes)

(* lines 73-89 *)
RECURSIVE rewrite_const_funs(_, _, _)
rewrite_const_funs(nodes, funs, any_changes) ==
    IF funs = <<>> THEN Ok(nodes, any_changes)
    ELSE IF Head(funs).lcs # <<>>
    THEN (CHOOSE y \in {
            rewrite_const_funs(
                remove_node(replace_ops(ins.nodes, Head(funs).lcs, ins.new_root),
                            Head(funs).konst_n),
                Tail(funs), TRUE)
           : ins \in {insert_hugr(nodes, Head(funs).func_hugr)}} : TRUE)
    ELSE rewrite_const_funs(remove_node(nodes, Head(funs).konst_n), Tail(funs), any_changes)

inline_constant_functions_impl(nodes) ==
    (CHOOSE y \in {IF funs.st # "ok" THEN Fail(funs)
                   ELSE rewrite_const_funs(nodes, funs.val, FALSE)
       : funs \in {const_funs(nodes, 1, <<>>)}} : TRUE)

(* A variant that makes one pass only *)
inline_constant_functions_once(nodes) ==
    (CHOOSE y \in {IF r.st # "ok" THEN Fail(r) ELSE Ok(r.cx, <<>>)
       : r \in {inline_constant_functions_impl(nodes)}} : TRUE)

(* while inline_constant_functions_impl(hugr, registry)? {} *)
RECURSIVE inline_constant_functions(_)
inline_constant_functions(nodes) ==
    (CHOOSE y \in {IF r.st # "ok" THEN Fail(r)
                   ELSE IF r.val THEN inline_constant_functions(r.cx)
                   ELSE Ok(r.cx, <<>>)
       : r \in {inline_constant_functions_impl(nodes)}} : TRUE)

(* The constants built: plain values, function values over both supported  *)
(* roots and an unsupported one, function values nested in function values *)
(* up to three deep, and a tuple holding a function value.                 *)
Identity == Value_Function("DFG", <<>>)

BodyConsts ==
    {BodyConst(v, l) : v \in {Identity, Value_Extension, Value_Function("Case", <<>>)},
                       l \in {0, 1}}

ConstValues ==
    {Value_Extension, Identity, Value_Function("FuncDefn", <<>>),
     Value_Function("Case", <<>>), Value_Tuple(<<Identity>>),
     Value_Function("FuncDefn", <<BodyConst(Identity, 1)>>),
     Value_Function("DFG", <<BodyConst(Value_Function("DFG", <<BodyConst(Identity, 1)>>), 1)>>)}
        \cup {Value_Function("DFG", <<b>>) : b \in BodyConsts}

BuildConst(value, loads, others) ==
    /\ hugr.st = "none"
    /\ hugr.built < MaxConsts
    /\ hugr' = [hugr EXCEPT !.nodes = add_constant(@, value, loads, others),
                            !.built = @ + 1]

InlineConstantFunctions ==
    /\ hugr.st = "none"
    /\ hugr' = [nodes |-> inline_constant_functions(hugr.nodes).cx,
                built |-> hugr.built,
                passes |-> hugr.passes,
                st |-> inline_constant_functions(hugr.nodes).st,
                err |-> inline_constant_functions(hugr.nodes).err]

outsideHugr == <<irVars, sumVars, regVars, rmbVars, emitVars, mapped, module, flat,
                  builders, closure>>

InitHugr == InitIR /\ InitSumVars /\ InitRegVars /\ InitRmbVars /\ InitEmitVars /\ InitUtilVars

NextHugr ==
    \/ \E value \in ConstValues, loads \in 0..MaxLoads :
           BuildConst(value, loads, 0) /\ UNCHANGED outsideHugr
    \/ \E value \in ConstValues :
           BuildConst(value, 0, 1) /\ UNCHANGED outsideHugr
    \/ InlineConstantFunctions /\ UNCHANGED outsideHugr

SpecHugr == InitHugr /\ [][NextHugr]_vars

(* Claims about inlining constant functions *)

FunctionConsts(nodes) ==
    {n \in 1..Len(nodes) : nodes[n].op = "Const" /\ nodes[n].value.k = "Function"}

OpsOf(nodes, op) == {n \in 1..Len(nodes) : nodes[n].op = op}

(* C16: after inline_constant_functions returns Ok, no Const node of the   *)
(* hugr has a function value, including those that were nested inside      *)
(* another function constant before the call.                              *)
C16_NoFunctionConst ==
    hugr.st = "ok" => FunctionConsts(hugr.nodes) = {}

(* test::nested: a loaded function constant whose body loads a function    *)
(* constant; both became function definitions with a LoadFunction each.    *)
C16_Witness ==
    /\ hugr.st = "ok"
    /\ hugr.built = 1
    /\ Cardinality(OpsOf(hugr.nodes, "FuncDefn")) = 2
    /\ Cardinality(OpsOf(hugr.nodes, "LoadFunction")) = 2
    /\ OpsOf(hugr.nodes, "Const") = {}

(* A function value held inside a tuple constant is not a function         *)
(* constant for the pass: the tuple constant is left as it is.             *)
C16_TupleConstKept ==
    /\ hugr.st = "ok"
    /\ \E n \in OpsOf(hugr.nodes, "Const") : hugr.nodes[n].value = Value_Tuple(<<Identity>>)

-----------------------------------------------------------------------------
(* The angle operations lowered and executed *)

AngleOps == {"aadd", "asub", "amul", "aneg", "adiv"}

(* The unsigned integers an angle is lowered to *)
Angles == 0..(Pow2(UsizeWidth) - 1)

(* The operation's inputs as constants, a mailbox of the angle type for    *)
(* its output, the operation, and the read of the output.                  *)
LowerAngleOp(c, op, vals) ==
    (CHOOSE y \in {IF t.st # "ok" THEN Fail(t) ELSE
        (CHOOSE y \in {
            (CHOOSE y \in {IF r.st # "ok" THEN Fail(r) ELSE
                read_vec(r.cx, <<Len(args.cx.sty) + 1>>, <<>>)
               : r \in {AngleOpEmitter_emit([args.cx EXCEPT !.sty = Append(@, t.val)],
                                            op, args.val,
                                            promise(<<Len(args.cx.sty) + 1>>))}} : TRUE)
           : args \in {Constants(c, vals, <<>>)}} : TRUE)
       : t \in {In(c, AngleCodegenExtension_llvm_type(c.exts.types, ANGLE_CUSTOM_TYPE))}} : TRUE)

EmitAngleOp ==
    /\ phase = "emit" /\ lowered.kind = "none"
    /\ \E op \in AngleOps, vals \in SeqsUpTo(Angles, 2), usize_h \in {"H1", "H2"} :
          /\ vals # <<>>
          /\ \E r \in {LowerAngleOp([cx EXCEPT !.exts.types = (usize_t.key :> usize_h)],
                                    op, vals)} :
                /\ cx' = r.cx
                /\ lowered' = [lowered EXCEPT !.kind = "angle", !.st = r.st,
                                              !.err = r.err, !.callee = op,
                                              !.vals = vals, !.rest = r.val]
    /\ UNCHANGED <<phase, pc, env, mem, visited, outsideEmit>>

InitAngle == InitEmit

NextAngle ==
    \/ EmitAngleOp
    \/ RunEmit
    \/ StepEmit

SpecAngle == InitAngle /\ [][NextAngle]_vars

(* Claims about angles *)

(* The operation on unsigned integers of w bits that an angle operation    *)
(* stands for.                                                             *)
Wrapping(op, vals, w) ==
    CASE op = "aadd" -> (vals[1] + vals[2]) % Pow2(w)
      [] op = "asub" -> (vals[1] + (Pow2(w) - vals[2])) % Pow2(w)
      [] op = "amul" -> (vals[1] * vals[2]) % Pow2(w)
      [] op = "aneg" -> (Pow2(w) - vals[1]) % Pow2(w)

Lowered(kind) == lowered.kind = kind /\ lowered.st = "ok"

(* C18: the value of an angle is an unsigned integer of the usize width w, *)
(* and aadd, asub, amul and aneg compute the unsigned integer operation    *)
(* modulo 2^w.                                                             *)
C18_AngleArithmetic ==
    (Lowered("angle") /\ phase = "done") =>
        /\ lowered.callee \in {"aadd", "asub", "amul", "aneg"}
        /\ Len(lowered.rest) = 1
        /\ cx.rty[lowered.rest[1]] = TypeHandler(cx.exts.types[usize_t.key], <<>>).val
        /\ get_bit_width(cx.rty[lowered.rest[1]]) = UsizeWidth
        /\ RegVals(lowered.rest)[1] \in Angles
        /\ RegVals(lowered.rest)[1] = Wrapping(lowered.callee, lowered.vals, UsizeWidth)

(* Two half-turns add up to zero. *)
C18_Witness ==
    /\ Lowered("angle") /\ phase = "done"
    /\ lowered.callee = "aadd"
    /\ lowered.vals = <<Pow2(UsizeWidth - 1), Pow2(UsizeWidth - 1)>>
    /\ RegVals(lowered.rest) = <<0>>

(* 1 - 2 wraps to 2^w - 1; the negation of a quarter-turn is three of them *)
C18_WitnessSub ==
    /\ Lowered("angle") /\ phase = "done"
    /\ lowered.callee = "asub"
    /\ lowered.vals = <<1, 2>>
    /\ RegVals(lowered.rest) = <<Pow2(UsizeWidth) - 1>>

-----------------------------------------------------------------------------
(* Straight-line regions.  A function body of MaxOps operations besides    *)
(* its Input (node 2, two parameters) and Output (node 3, two results);    *)
(* operation k is node 3 + k.  Its first input is the function's first     *)
(* parameter ("in") or the previous operation's output ("prev": the second *)
(* parameter when that operation has no output).                           *)

MaxOps == 2

OpKinds == {"gate", "aadd", "nullary", "tag",            \* lowered
            "unknown", "aadd1", "badtype", "tagbad"}     \* failing

OpSpec(kind, dep) == [kind |-> kind, dep |-> dep]

Failing == {"unknown", "aadd1", "badtype", "tagbad"}

OpSpecs == {OpSpec(kind, dep) : kind \in OpKinds \ (Failing \cup {"nullary"}),
                                dep \in {"in", "prev"}}
               \cup {OpSpec(kind, "in") : kind \in Failing \cup {"nullary"}}

HasOut(spec) == spec.kind \in {"gate", "aadd", "unknown", "aadd1", "badtype"}

OpNode(k) == 3 + k

Source(specs, k, dep) ==
    IF dep = "in" THEN <<2, 0>>
    ELSE IF k > 1 /\ HasOut(specs[k - 1]) THEN <<OpNode(k - 1), 0>>
    ELSE <<2, 1>>

OpOfKind(kind, src) ==
        CASE kind = "gate" ->
               [Node("CustomOp") EXCEPT !.name = "h", !.ins = <<src>>, !.outs = <<usize_t>>]
          [] kind = "aadd" ->
               [Node("CustomOp") EXCEPT !.name = "aadd", !.ins = <<src, <<2, 1>>>>,
                                        !.outs = <<usize_t>>]
          [] kind = "nullary" -> [Node("CustomOp") EXCEPT !.name = "h"]
          [] kind = "tag" ->
               [Node("Tag") EXCEPT !.ins = <<src>>, !.outs = <<SumType(<<<<usize_t>>>>)>>]
          [] kind = "unknown" ->
               [Node("CustomOp") EXCEPT !.name = "x", !.ins = <<src>>, !.outs = <<usize_t>>]
          [] kind = "aadd1" ->
               [Node("CustomOp") EXCEPT !.name = "aadd", !.ins = <<src>>,
                                        !.outs = <<usize_t>>]
          [] kind = "badtype" ->
               [Node("CustomOp") EXCEPT !.name = "h", !.ins = <<src>>,
                                        !.outs = <<CustomType(<<"a", "b">>)>>]
          [] kind = "tagbad" ->
               [Node("Tag") EXCEPT !.ins = <<src>>,
                                   !.outs = <<SumType(<<<<usize_t, usize_t>>>>)>>]

FlowOp(specs, k) == OpOfKind(specs[k].kind, Source(specs, k, specs[k].dep))

(* The function returns the last operation's output and its second         *)
(* parameter.                                                              *)
FlowHugr(specs, topo) ==
    [n \in 1..(3 + Len(specs)) |->
        CASE n = 1 -> FuncBody([i \in 1..(2 + Len(specs)) |-> i + 1], topo)
          [] n = 2 -> [Node("Input") EXCEPT !.outs = Usizes(2)]
          [] n = 3 -> [Node("Output") EXCEPT
                           !.ins = <<Source(specs, Len(specs) + 1, "prev"), <<2, 1>>>>]
          [] OTHER -> FlowOp(specs, n - 3)]

(* The orders the Topo walker may yield: every child once, a producer      *)
(* before its consumers.                                                   *)
RECURSIVE Perms(_)
Perms(S) ==
    IF S = {} THEN {<<>>}
    ELSE UNION {{<<x>> \o p : p \in Perms(S \ {x})} : x \in S}

Pos(q, x) == CHOOSE i \in 1..Len(q) : q[i] = x

TopoOrders(h) ==
    {t \in Perms(Range(h[1].children)) :
        \A v \in Range(h[1].children) : \A q \in 1..Len(h[v].ins) :
            Pos(t, h[v].ins[q][1]) < Pos(t, v)}

FlowOps == ("h" :> "H1") @@ ("aadd" :> "H2")

EmitFlow ==
    /\ phase = "emit" /\ lowered.kind = "none"
    /\ \E specs \in SeqsUpTo(OpSpecs, MaxOps), debug_assertions \in BOOLEAN :
       \E t \in TopoOrders(FlowHugr(specs, <<>>)) :
       \E r \in {Lower(FlowHugr(specs, t), Params(0, 2), debug_assertions)} :
           /\ cx' = r.cx
           /\ lowered' = [lowered EXCEPT !.kind = "flow", !.st = r.st, !.err = r.err,
                                         !.vals = Params(0, 2), !.h = FlowHugr(specs, t),
                                         !.ret = r.val]
    /\ UNCHANGED <<phase, pc, env, mem, visited, outsideEmit>>

(* Nested regions: a function of one parameter passing it through a       *)
(* Conditional of two cases (nodes 6 and 10) or through a CFG of two       *)
(* blocks (5, then 7, then the exit 6), with one operation in each case or *)
(* block.                                                                  *)
NestedKinds == {"gate", "unknown", "aadd1"}

Unit == SumType(<<<<>>>>)

CondFlowHugr(k1, k2) ==
    <<FuncBody(<<2, 3, 4, 5>>, <<2, 4, 5, 3>>),
      [Node("Input") EXCEPT !.outs = Usizes(1)],
      [Node("Output") EXCEPT !.ins = <<<<5, 0>>>>],
      [Node("Tag") EXCEPT !.outs = <<SumType(<<<<>>, <<>>>>)>>],
      [Node("Conditional") EXCEPT !.ins = <<<<4, 0>>, <<2, 0>>>>,
                                  !.outs = Usizes(1),
                                  !.rows = <<<<>>, <<>>>>,
                                  !.children = <<6, 10>>],
      [Node("Case") EXCEPT !.children = <<7, 8, 9>>, !.topo = <<7, 9, 8>>],
      [Node("Input") EXCEPT !.outs = Usizes(1)],
      [Node("Output") EXCEPT !.ins = <<<<9, 0>>>>],
      OpOfKind(k1, <<7, 0>>),
      [Node("Case") EXCEPT !.children = <<11, 12, 13>>, !.topo = <<11, 13, 12>>],
      [Node("Input") EXCEPT !.outs = Usizes(1)],
      [Node("Output") EXCEPT !.ins = <<<<13, 0>>>>],
      OpOfKind(k2, <<11, 0>>)>>

CfgFlowHugr(k1, k2) ==
    <<FuncBody(<<2, 3, 4>>, <<2, 4, 3>>),
      [Node("Input") EXCEPT !.outs = Usizes(1)],
      [Node("Output") EXCEPT !.ins = <<<<4, 0>>>>],
      [Node("CFG") EXCEPT !.ins = <<<<2, 0>>>>, !.outs = Usizes(1),
                          !.children = <<5, 6, 7>>],
      [Node("DataflowBlock") EXCEPT !.children = <<8, 9, 10, 11>>,
                                    !.topo = <<8, 10, 11, 9>>,
                                    !.rows = <<<<>>>>, !.succ = <<7>>],
      Node("ExitBlock"),
      [Node("DataflowBlock") EXCEPT !.children = <<12, 13, 14, 15>>,
                                    !.topo = <<12, 14, 15, 13>>,
                                    !.rows = <<<<>>>>, !.succ = <<6>>],
      [Node("Input") EXCEPT !.outs = Usizes(1)],
      [Node("Output") EXCEPT !.ins = <<<<10, 0>>, <<11, 0>>>>],
      [Node("Tag") EXCEPT !.outs = <<Unit>>],
      OpOfKind(k1, <<8, 0>>),
      [Node("Input") EXCEPT !.outs = Usizes(1)],
      [Node("Output") EXCEPT !.ins = <<<<14, 0>>, <<15, 0>>>>],
      [Node("Tag") EXCEPT !.outs = <<Unit>>],
      OpOfKind(k2, <<12, 0>>)>>

EmitNested ==
    /\ phase = "emit" /\ lowered.kind = "none"
    /\ \E k1 \in NestedKinds, k2 \in NestedKinds, debug_assertions \in BOOLEAN :
       \E h \in {CondFlowHugr(k1, k2), CfgFlowHugr(k1, k2)} :
       \E r \in {Lower(h, Params(0, 1), debug_assertions)} :
           /\ cx' = r.cx
           /\ lowered' = [lowered EXCEPT !.kind = "nested", !.st = r.st, !.err = r.err,
                                         !.vals = Params(0, 1), !.h = h, !.ret = r.val]
    /\ UNCHANGED <<phase, pc, env, mem, visited, outsideEmit>>

(* The session has the gate and angle handlers registered. *)
FlowContext == [EmptyContext EXCEPT !.exts.ops = FlowOps]

InitFlow ==
    /\ cx = FlowContext
    /\ phase = "emit"
    /\ pc = [bb |-> 1, ip |-> 1]
    /\ env = <<>>
    /\ mem = <<>>
    /\ visited = <<>>
    /\ ops = FlowOps
    /\ types = EmptyContext.exts.types
    /\ consts = <<>>
    /\ loaded = NoCall
    /\ reglog = <<>>
    /\ looked = NoCall
    /\ InitSumVars /\ InitRmbVars /\ InitEmitVars /\ InitUtilVars

NextFlow ==
    \/ EmitFlow
    \/ EmitNested

SpecFlow == InitFlow /\ [][NextFlow]_vars

-----------------------------------------------------------------------------
(* Claims about straight-line regions *)

IsEmit(e) == e.ev = "emit"

(* The children entered, in the order of their emission *)
Emitted == [i \in 1..Len(SelectSeq(cx.log, IsEmit)) |-> SelectSeq(cx.log, IsEmit)[i].node]

Unmappable(t) == t.k = "Extension" /\ t.key \notin DOMAIN cx.exts.types

(* The error a child raises when it is lowered, "" when it raises none:    *)
(* the type mapper's for an output type without a handler, the registry's  *)
(* for an operation without one, the handler's, the sum encoder's.         *)
FaultOf(h, n) ==
    CASE \E p \in 1..Len(h[n].outs) : Unmappable(h[n].outs[p]) -> "No handler for type"
      [] h[n].op = "CustomOp" /\ h[n].name \notin DOMAIN cx.exts.ops -> "Unknown op"
      [] h[n].op = "CustomOp" /\ h[n].name = "aadd" /\ Len(h[n].ins) # 2 ->
             "AngleOp::aadd expects two arguments"
      [] h[n].op = "Tag" /\ Len(h[n].ins) # Len(h[n].outs[1].rows[h[n].tag + 1]) ->
             "LLVMSumType::build: wrong number of fields"
      [] OTHER -> ""

(* The function's results cannot be stored: raised before any child. *)
BadResults(h) == \E t \in Range(in_value_types(h, 3)) : Unmappable(t)

(* The emission order of a hugr: the children of a region in its           *)
(* topological order, the cases of a Conditional and the blocks of a CFG   *)
(* in their hierarchy order, each child followed by what it contains.      *)
RECURSIVE Walk(_, _)
Walk(h, n) ==
    Flatten([i \in 1..Len(h[n].topo) |-> <<h[n].topo[i]>> \o Walk(h, h[n].topo[i])])
        \o (IF h[n].op \in {"Conditional", "CFG"}
            THEN Flatten([i \in 1..Len(h[n].children) |-> Walk(h, h[n].children[i])])
            ELSE <<>>)

Faulty(h) == {i \in 1..Len(Walk(h, 1)) : FaultOf(h, Walk(h, 1)[i]) # ""}

(* C11: the first error raised during lowering is the error returned, and  *)
(* no child later in the emission order is lowered after it.               *)
C11_FirstErrorAborts ==
    lowered.kind \in {"flow", "nested"} =>
        IF BadResults(lowered.h)
        THEN /\ lowered.st = "err"
             /\ lowered.err = "No handler for type"
             /\ Emitted = <<>>
        ELSE IF Faulty(lowered.h) = {}
        THEN /\ lowered.st = "ok"
             /\ Emitted = Walk(lowered.h, 1)
        ELSE /\ lowered.st = "err"
             /\ lowered.err = FaultOf(lowered.h, Walk(lowered.h, 1)[First(Faulty(lowered.h))])
             /\ Emitted = SubSeq(Walk(lowered.h, 1), 1, First(Faulty(lowered.h)))

(* Two independent failing operations: the unknown operation 5 is emitted  *)
(* before the ill-formed Tag 4, whose error is never raised.               *)
C11_Witness ==
    /\ lowered.kind = "flow"
    /\ lowered.h[1].topo = <<2, 5, 4, 3>>
    /\ lowered.h[4].op = "Tag"
    /\ FaultOf(lowered.h, 4) = "LLVMSumType::build: wrong number of fields"
    /\ lowered.st = "err"
    /\ lowered.err = "Unknown op"
    /\ Emitted = <<2, 5>>

(* The operation of the first case fails: the second case is not lowered.  *)
C11_WitnessCase ==
    /\ lowered.kind = "nested"
    /\ lowered.h[5].op = "Conditional"
    /\ FaultOf(lowered.h, 9) = "Unknown op"
    /\ FaultOf(lowered.h, 13) = "AngleOp::aadd expects two arguments"
    /\ lowered.st = "err" /\ lowered.err = "Unknown op"
    /\ Emitted = <<2, 4, 5, 7, 9>>

(* The operation of the entry block fails: the second block is not lowered. *)
C11_WitnessBlock ==
    /\ lowered.kind = "nested"
    /\ lowered.h[4].op = "CFG"
    /\ FaultOf(lowered.h, 11) = "AngleOp::aadd expects two arguments"
    /\ FaultOf(lowered.h, 15) = "Unknown op"
    /\ lowered.st = "err" /\ lowered.err = "AngleOp::aadd expects two arguments"
    /\ Emitted = <<2, 4, 8, 10, 11>>

-----------------------------------------------------------------------------
(* The value flow of a lowered region *)

(* The mailboxes child n was given for its input ports and for its output  *)
(* ports when it was lowered                                               *)
MailboxesOf(log, ev, n) ==
    IF \E i \in 1..Len(log) : log[i].ev = ev /\ log[i].node = n
    THEN log[CHOOSE i \in 1..Len(log) : log[i].ev = ev /\ log[i].node = n].regs
    ELSE <<>>

(* The wiring of a lowering: output port p of child u and input port q of  *)
(* child v are wired when they were given the same mailbox.                *)
ValueFlow(h, log) ==
    {e \in UNION {{<<u, p, v, q>> : p \in 1..Len(MailboxesOf(log, "outs", u)),
                                    q \in 1..Len(MailboxesOf(log, "ins", v))}
                  : u \in Range(h[1].children), v \in Range(h[1].children)} :
        MailboxesOf(log, "outs", e[1])[e[2]] = MailboxesOf(log, "ins", e[3])[e[4]]}

(* The dataflow edges of the region *)
HugrEdges(h) ==
    UNION {{<<h[v].ins[q][1], h[v].ins[q][2] + 1, v, q>> : q \in 1..Len(h[v].ins)}
           : v \in Range(h[1].children)}

Reordered(h, t) == [h EXCEPT ![1].topo = t]

(* The order of the hierarchy with the Output last: one of the valid       *)
(* orders, against which every other is compared                           *)
HierarchyOrder(h) ==
    SelectSeq(h[1].children, LAMBDA n : h[n].op # "Output")
        \o SelectSeq(h[1].children, LAMBDA n : h[n].op = "Output")

(* The lowering of the same region in the order t *)
Relowered(t) ==
    LowerIn(FlowContext, Reordered(lowered.h, t), lowered.vals, cx.debug_assertions)

(* The kinds of instruction of the function, with their numbers *)
RECURSIVE OpCount(_, _)
OpCount(code, op) ==
    IF code = <<>> THEN 0
    ELSE (IF Head(code).op = op THEN 1 ELSE 0) + OpCount(Tail(code), op)

InstrKinds == {"call", "load", "store", "add", "insertvalue", "extractvalue"}

Census(c) == [op \in InstrKinds |-> OpCount(c.blocks[1], op)]

(* C14: a straight-line region lowered in any valid topological order has  *)
(* the value flow of its dataflow edges: every input port of a child reads *)
(* the mailbox that its producer's output port writes, and ports of        *)
(* different wires have different mailboxes; and it has the wiring, the    *)
(* region's Output node included, and up to their order the instructions   *)
(* of the lowering of the same region in its hierarchy order, so that the  *)
(* lowerings in any two valid orders agree in both.                        *)
C14_OrderIndependence ==
    (Lowered("flow") /\ phase = "emit") =>
        /\ ValueFlow(lowered.h, cx.log) = HugrEdges(lowered.h)
        /\ HierarchyOrder(lowered.h) \in TopoOrders(lowered.h)
        /\ \A r \in {Relowered(HierarchyOrder(lowered.h))} :
              /\ r.st = "ok"
              /\ ValueFlow(lowered.h, r.cx.log) = ValueFlow(lowered.h, cx.log)
              /\ Census(r.cx) = Census(cx)

(* Two independent operations lowered second-first: the angle addition of *)
(* node 5, which feeds the Output, is entered before the gate of node 4.   *)
C14_Witness ==
    /\ Lowered("flow") /\ phase = "emit"
    /\ lowered.h[1].topo = <<2, 5, 4, 3>>
    /\ lowered.h[4].name = "h" /\ lowered.h[5].name = "aadd"
    /\ Emitted = <<2, 5, 4, 3>>
    /\ ValueFlow(lowered.h, cx.log) =
           {<<2, 1, 4, 1>>, <<2, 1, 5, 1>>, <<2, 2, 5, 2>>, <<5, 1, 3, 1>>, <<2, 2, 3, 2>>}
    /\ Cardinality(TopoOrders(lowered.h)) > 1

-----------------------------------------------------------------------------
(* The order of emission in a lowered region *)

Times(q, x) == Cardinality({i \in 1..Len(q) : q[i] = x})

(* Instruction i of block bb reads a mailbox that an earlier instruction   *)
(* of the block has written.                                               *)
Filled(c, bb, i) ==
    \E j \in 1..(i - 1) : /\ c.blocks[bb][j].op = "store"
                           /\ c.blocks[bb][j].i = c.blocks[bb][i].i

(* C20: in a lowered straight-line region every child, the Input and the   *)
(* Output included, is emitted exactly once and after every child that     *)
(* produces a value for one of its input ports, and every read of a        *)
(* mailbox in the emitted code is preceded by a write of that mailbox.     *)
C20_ProducersFirst ==
    Lowered("flow") =>
        /\ \A n \in Range(lowered.h[1].children) : Times(Emitted, n) = 1
        /\ Len(Emitted) = Len(lowered.h[1].children)
        /\ \A v \in Range(lowered.h[1].children) : \A q \in 1..Len(lowered.h[v].ins) :
              Pos(Emitted, lowered.h[v].ins[q][1]) < Pos(Emitted, v)
        /\ \A bb \in 1..Len(cx.blocks) : \A i \in 1..Len(cx.blocks[bb]) :
              cx.blocks[bb][i].op = "load" => Filled(cx, bb, i)

(* A chain: the gate of node 5 reads the mailbox the gate of node 4 has    *)
(* written, and the Output reads the mailbox of node 5.                    *)
C20_Witness ==
    /\ Lowered("flow")
    /\ Len(lowered.h) = 5
    /\ lowered.h[4].name = "h" /\ lowered.h[5].name = "h"
    /\ lowered.h[5].ins = <<<<4, 0>>>> /\ lowered.h[3].ins[1] = <<5, 0>>
    /\ Emitted = <<2, 4, 5, 3>>
    /\ \E i \in 1..Len(cx.blocks[1]), j \in 1..Len(cx.blocks[1]) :
          /\ j < i
          /\ cx.blocks[1][j] = Store(cx.wires[<<4, 0>>], cx.blocks[1][j].a)
          /\ cx.blocks[1][i] = Load(cx.blocks[1][i].dst, cx.wires[<<4, 0>>])

-----------------------------------------------------------------------------
(* A CFG with forward edges, back edges and self loops: node 4 is the CFG, *)
(* its children the entry block 5, the exit block 6 and a further block 7. *)
(* A block (Input, Output, Tag at nodes io, io + 1, io + 2) receives a row *)
(* of two values, swaps them, tags the first nf of them into its control   *)
(* sum and passes the others through; its successor edges go to any of the *)
(* three children and the tag it builds selects one of them.               *)

MaxEdges == 2

MaxVisits == 8

CfgChildren == <<5, 6, 7>>

LoopRow == <<usize_t, usize_t>>

Swap(q) == <<q[2], q[1]>>

Rotations(q) ==
    {[i \in 1..Len(q) |-> q[((i + r - 1) % Len(q)) + 1]] : r \in 0..(Len(q) - 1)}

EdgeLists ==
    {SubSeq(q, 1, n) : q \in Rotations(CfgChildren), n \in 1..MaxEdges}
        \cup {[k \in 1..n |-> t] : t \in Range(CfgChildren), n \in 1..MaxEdges}

BlockSpecs == {b \in [succ : EdgeLists, tag : 0..(MaxEdges - 1)] : b.tag < Len(b.succ)}

(* The further block leaves by its last edge. *)
OtherSpecs == {b \in BlockSpecs : b.tag = Len(b.succ) - 1}

LoopBlock(io, nf, b) ==
    <<[Node("DataflowBlock") EXCEPT !.children = <<io, io + 1, io + 2>>,
                                    !.topo = <<io, io + 2, io + 1>>,
                                    !.rows = [k \in 1..Len(b.succ) |-> Usizes(nf)],
                                    !.succ = b.succ],
      [Node("Input") EXCEPT !.outs = LoopRow],
      [Node("Output") EXCEPT
           !.ins = <<<<io + 2, 0>>>> \o SubSeq(Swap(Ports(io, 0, 2)), nf + 1, 2)],
      [Node("Tag") EXCEPT !.ins = SubSeq(Swap(Ports(io, 0, 2)), 1, nf),
                          !.outs = <<SumType([k \in 1..Len(b.succ) |-> Usizes(nf)])>>,
                          !.tag = b.tag]>>

LoopCfgHugr(nf, entry, other) ==
    <<FuncBody(<<2, 3, 4>>, <<2, 4, 3>>),
      [Node("Input") EXCEPT !.outs = LoopRow],
      [Node("Output") EXCEPT !.ins = Ports(4, 0, 2)],
      [Node("CFG") EXCEPT !.ins = Ports(2, 0, 2), !.outs = LoopRow,
                          !.children = CfgChildren],
      LoopBlock(8, nf, entry)[1],
      Node("ExitBlock"),
      LoopBlock(11, nf, other)[1]>>
        \o Tail(LoopBlock(8, nf, entry)) \o Tail(LoopBlock(11, nf, other))

EmitLoopCfg ==
    /\ phase = "emit" /\ lowered.kind = "none"
    /\ \E nf \in 0..Len(LoopRow), entry \in BlockSpecs, other \in OtherSpecs,
          debug_assertions \in BOOLEAN :
       \E r \in {Lower(LoopCfgHugr(nf, entry, other), Params(0, 2), debug_assertions)} :
           /\ cx' = r.cx
           /\ lowered' = [lowered EXCEPT !.kind = "loop", !.st = r.st, !.err = r.err,
                                         !.vals = Params(0, 2),
                                         !.h = LoopCfgHugr(nf, entry, other),
                                         !.ret = r.val, !.pre = Len(cx.blocks)]
    /\ UNCHANGED <<phase, pc, env, mem, visited, outsideEmit>>

(* The execution is followed through MaxVisits blocks. *)
StepCfg == Step /\ Len(visited') <= MaxVisits /\ UNCHANGED <<emitVars, outsideEmit>>

InitCfg == InitEmit

NextCfg ==
    \/ EmitLoopCfg
    \/ RunEmit
    \/ StepCfg

SpecCfg == InitCfg /\ [][NextCfg]_vars

-----------------------------------------------------------------------------
(* Claims about the CFG emitter *)

NotesOf(ev, n) == {k \in Notes(ev) : cx.log[k].node = n}

(* The block and the mailbox CfgEmitter::new has allocated for child n *)
AllocOf(n) == cx.log[CHOOSE k \in NotesOf("alloc", n) : TRUE]

LastInstr(bb) == cx.blocks[bb][Len(cx.blocks[bb])]

(* C21: lowering a CFG succeeds whatever the targets of its edges, forward *)
(* to a child emitted later, backward or to the block itself: every child, *)
(* the exit included, is given one basic block and one input mailbox of    *)
(* its own before the body of any child is emitted, and every successor    *)
(* edge of every block has found the block allocated for its target.       *)
C21_PreAllocation ==
    lowered.kind = "loop" =>
        /\ lowered.st = "ok"
        /\ \A n \in Range(CfgChildren) : Cardinality(NotesOf("alloc", n)) = 1
        /\ \A a \in Notes("alloc") :
              /\ cx.log[a].bb \in 1..Len(cx.blocks)
              /\ Range(cx.log[a].regs) \subseteq 1..Len(cx.sty)
              /\ \A k \in Notes("block") \cup Notes("exit") \cup Notes("edge") : a < k
              /\ \A b \in Notes("alloc") \ {a} :
                    /\ cx.log[b].bb # cx.log[a].bb
                    /\ Range(cx.log[b].regs) \cap Range(cx.log[a].regs) = {}
        /\ \A n \in {5, 7} :
              /\ Cardinality(NotesOf("block", n)) = 1
              /\ \A t \in 1..Len(lowered.h[n].succ) :
                    \E k \in NotesOf("edge", n) :
                        /\ cx.log[k].i = t - 1
                        /\ LastInstr(cx.log[k].bb) = Br(AllocOf(lowered.h[n].succ[t]).bb)

(* The entry has a forward edge to block 7 and an edge to itself, block 7  *)
(* a back edge to the entry and an edge to the exit emitted before it.     *)
C21_Witness ==
    /\ lowered.kind = "loop" /\ lowered.st = "ok"
    /\ lowered.h[5].succ = <<7, 5>>
    /\ lowered.h[7].succ = <<5, 6>>
    /\ Cardinality(Notes("edge")) = 4
    /\ \E k \in NotesOf("edge", 5), j \in NotesOf("block", 7) :
          k < j /\ LastInstr(cx.log[k].bb) = Br(cx.log[j].bb)

(* The slots the stores of block bb write, in order *)
IsStore(ins) == ins.op = "store"

StoreSlots(bb) ==
    [j \in 1..Len(SelectSeq(cx.blocks[bb], IsStore)) |-> SelectSeq(cx.blocks[bb], IsStore)[j].i]

(* The note of the body of child n: of the block or of the exit *)
BodyOf(n) == cx.log[CHOOSE k \in NotesOf("block", n) \cup NotesOf("exit", n) : TRUE]

(* The edges that branch to child n *)
EdgesInto(n) ==
    {k \in Notes("edge") : lowered.h[cx.log[k].node].succ[cx.log[k].i + 1] = n}

(* The body of child n begins by loading its row from the mailbox          *)
(* allocated for n.                                                        *)
ReadsOwnMailbox(n) ==
    /\ BodyOf(n).bb = AllocOf(n).bb
    /\ Len(BodyOf(n).regs) = Len(AllocOf(n).regs)
    /\ \A j \in 1..Len(AllocOf(n).regs) :
          cx.blocks[AllocOf(n).bb][j] = Load(BodyOf(n).regs[j], AllocOf(n).regs[j])

(* The child whose body is block bb, 0 when bb is no body *)
ChildAt(bb) ==
    IF \E n \in Range(CfgChildren) : AllocOf(n).bb = bb
    THEN CHOOSE n \in Range(CfgChildren) : AllocOf(n).bb = bb
    ELSE 0

(* The row written by the block from which the current block was entered:  *)
(* the row of the edge, or the arguments of the CFG when it was entered    *)
(* from the block holding the CFG node.                                    *)
RowEntered ==
    IF \E k \in Notes("edge") : cx.log[k].bb = visited[Len(visited) - 1]
    THEN RegVals(cx.log[CHOOSE k \in Notes("edge") :
                           cx.log[k].bb = visited[Len(visited) - 1]].regs)
    ELSE lowered.vals

(* C22: every edge into a child, from whichever block and whichever        *)
(* direction, writes the one mailbox allocated for that child, from which  *)
(* the child's body reads; and whenever an execution has entered a child   *)
(* and read its row, the row is the one written by the edge through which  *)
(* it has just been entered.                                               *)
C22_OneMailbox ==
    (lowered.kind = "loop" /\ lowered.st = "ok") =>
        /\ \A n \in Range(CfgChildren) :
              /\ ReadsOwnMailbox(n)
              /\ \A k \in EdgesInto(n) : StoreSlots(cx.log[k].bb) = AllocOf(n).regs
        /\ (/\ phase \in {"run", "done"}
            /\ ChildAt(pc.bb) # 0
            /\ pc.ip = Len(AllocOf(ChildAt(pc.bb)).regs) + 1)
               => RegVals(BodyOf(ChildAt(pc.bb)).regs) = RowEntered

(* Block 7 is entered from the entry and then again through its own back   *)
(* edge, and has read the row its own edge wrote: the arguments swapped    *)
(* twice.                                                                  *)
C22_Witness ==
    /\ lowered.kind = "loop" /\ lowered.st = "ok"
    /\ phase = "run"
    /\ Cardinality(EdgesInto(7)) > 1
    /\ pc = [bb |-> AllocOf(7).bb, ip |-> 3]
    /\ \E p \in 1..Len(visited), q \in 1..Len(visited) :
          /\ p < q /\ q < Len(visited)
          /\ visited[p] = AllocOf(5).bb
          /\ visited[q] = AllocOf(7).bb
    /\ \E k \in NotesOf("edge", 7) : cx.log[k].bb = visited[Len(visited) - 1]
    /\ RegVals(BodyOf(7).regs) = <<1, 2>>

(* The tag of the control sum block n builds: that of its Tag node *)
BlockTag(n) == lowered.h[lowered.h[n].children[3]].tag

(* The edge block of tag t of block n *)
EdgeOf(n, t) == cx.log[CHOOSE k \in NotesOf("edge", n) : cx.log[k].i = t]

IsEdgeBlock(bb) == \E k \in Notes("edge") : cx.log[k].bb = bb

EdgeAt(bb) == cx.log[CHOOSE k \in Notes("edge") : cx.log[k].bb = bb]

Stores(bb) == SelectSeq(cx.blocks[bb], IsStore)

(* The edge block of tag t of block n: it extracts variant t of the        *)
(* control sum, stores its fields and then the pass-through outputs in the *)
(* slots of the target's mailbox, in order, and ends in the branch to the  *)
(* target's block.                                                         *)
EdgeWrites(n, t) ==
    /\ Len(EdgeOf(n, t).regs) = Len(AllocOf(lowered.h[n].succ[t + 1]).regs)
    /\ Stores(EdgeOf(n, t).bb) =
           [j \in 1..Len(EdgeOf(n, t).regs) |->
               Store(AllocOf(lowered.h[n].succ[t + 1]).regs[j], EdgeOf(n, t).regs[j])]
    /\ LastInstr(EdgeOf(n, t).bb) = Br(AllocOf(lowered.h[n].succ[t + 1]).bb)
    /\ \A ip \in 1..(Len(cx.blocks[EdgeOf(n, t).bb]) - 1) :
          cx.blocks[EdgeOf(n, t).bb][ip].op \in {"extractvalue", "store"}

(* The row block n hands to its successor: the first values of its swapped *)
(* input row as the fields of the variant, the others passed through.      *)
RowHanded(n) == Swap(RegVals(BodyOf(n).regs))

MemAt(slots) == [j \in 1..Len(slots) |-> mem[slots[j]]]

(* C23: the block of the successor edge of tag t of a CFG block writes the *)
(* fields of variant t of the block's control sum followed by the block's  *)
(* pass-through outputs, in that order, into the mailbox of the edge's     *)
(* target and then branches to the target's block; an execution enters it  *)
(* after the block exactly when the tag of the block's control sum is t,   *)
(* and when it branches the target's mailbox holds that row.               *)
C23_EdgeRow ==
    (lowered.kind = "loop" /\ lowered.st = "ok") =>
        /\ \A n \in {5, 7} : \A t \in 0..(Len(lowered.h[n].succ) - 1) : EdgeWrites(n, t)
        /\ phase \in {"run", "done"} =>
              /\ \A p \in 2..Len(visited) :
                    ChildAt(visited[p - 1]) \in {5, 7} =>
                        visited[p] = EdgeOf(ChildAt(visited[p - 1]),
                                            BlockTag(ChildAt(visited[p - 1]))).bb
              /\ \A p \in 2..Len(visited) :
                    IsEdgeBlock(visited[p]) =>
                        /\ EdgeAt(visited[p]).i = BlockTag(EdgeAt(visited[p]).node)
                        /\ ChildAt(visited[p - 1]) = EdgeAt(visited[p]).node
              /\ (IsEdgeBlock(pc.bb) /\ pc.ip = Len(cx.blocks[pc.bb])) =>
                    /\ RegVals(EdgeAt(pc.bb).regs) = RowHanded(EdgeAt(pc.bb).node)
                    /\ MemAt(AllocOf(lowered.h[EdgeAt(pc.bb).node].succ[EdgeAt(pc.bb).i + 1]).regs)
                          = RowHanded(EdgeAt(pc.bb).node)

(* The entry, whose control sum has one field and the tag 1, is about to   *)
(* branch through its second edge: the field, then the value passed        *)
(* through.                                                                *)
C23_Witness ==
    /\ lowered.kind = "loop" /\ lowered.st = "ok"
    /\ phase = "run"
    /\ BlockTag(5) = 1
    /\ lowered.h[5].rows = <<<<usize_t>>, <<usize_t>>>>
    /\ pc.bb = EdgeOf(5, 1).bb /\ pc.ip = Len(cx.blocks[pc.bb])
    /\ visited = <<1, AllocOf(5).bb, EdgeOf(5, 1).bb>>
    /\ MemAt(AllocOf(lowered.h[5].succ[2]).regs) = <<2, 1>>

-----------------------------------------------------------------------------
(* Claims about the wiring of the cases of a Conditional (node 5 of        *)
(* ConditionalHugr)                                                        *)

CondCase(i) == cx.log[CHOOSE k \in Notes("case") : cx.log[k].i = i]

CondExit == cx.log[CHOOSE k \in Notes("cond_exit") : TRUE]

(* The note of the Conditional node itself: the block that dispatches and *)
(* the node's inputs, the selector first.                                  *)
CondEmit == cx.log[CHOOSE k \in NotesOf("emit", 5) : TRUE]

(* The slots of the loads a block begins with, one per register of regs *)
SlotsRead(bb, regs) == [j \in 1..Len(regs) |-> cx.blocks[bb][j].i]

BeginsWithLoads(bb, regs) ==
    /\ Len(cx.blocks[bb]) >= Len(regs)
    /\ \A j \in 1..Len(regs) : cx.blocks[bb][j] = Load(regs[j], SlotsRead(bb, regs)[j])

CaseFields(i) == Len(lowered.rows[i + 1])

(* The dispatching block blk stores into the slot, the j-th of the mailbox  *)
(* of a case of nfields fields, once: for j within the variant's fields a  *)
(* value extracted at index j - 1 from a row extracted from the selector,  *)
(* for a later j the node's input that follows the selector at the same    *)
(* distance.                                                               *)
CaseWritten(blk, inputs, slot, nfields, j) ==
    \E ip \in 1..Len(blk) :
        /\ blk[ip].op = "store"
        /\ blk[ip].i = slot
        /\ \A iq \in 1..Len(blk) :
              (blk[iq].op = "store" /\ blk[iq].i = slot) => iq = ip
        /\ IF j > nfields
           THEN blk[ip].a = inputs[1 + j - nfields]
           ELSE \E ir \in 1..(ip - 1) :
                   /\ blk[ir].op = "extractvalue"
                   /\ blk[ir].dst = blk[ip].a
                   /\ blk[ir].i = j - 1
                   /\ \E is \in 1..(ir - 1) :
                         /\ blk[is].op = "extractvalue"
                         /\ blk[is].dst = blk[ir].a
                         /\ blk[is].a = inputs[1]

(* The block of case i ends with the stores of the body's outputs into the *)
(* slots the exit block reads and the branch to the exit block.            *)
CaseEnds(i) ==
    /\ LastInstr(CondCase(i).bb) = Br(CondExit.bb)
    /\ Len(cx.blocks[CondCase(i).bb]) > Len(CondExit.regs)
    /\ \A j \in 1..Len(CondExit.regs) :
          /\ cx.blocks[CondCase(i).bb][Len(cx.blocks[CondCase(i).bb]) - 1 - Len(CondExit.regs) + j].op
                = "store"
          /\ cx.blocks[CondCase(i).bb][Len(cx.blocks[CondCase(i).bb]) - 1 - Len(CondExit.regs) + j].i
                = SlotsRead(CondExit.bb, CondExit.regs)[j]

IsCaseBlock(bb) == \E k \in Notes("case") : cx.log[k].bb = bb

CaseAt(bb) == cx.log[CHOOSE k \in Notes("case") : cx.log[k].bb = bb]

(* C24: in a lowered Conditional every case has a mailbox of its own from  *)
(* which its body reads its inputs, and the dispatching block writes into  *)
(* it the fields of variant i extracted from the selector followed by the  *)
(* node's inputs after the selector, in their order; every case body ends  *)
(* by storing its outputs into the one exit mailbox and branching to the   *)
(* exit block, which begins by reading that mailbox.  In an execution the  *)
(* case entered holds the node's other inputs after its fields, the fields *)
(* being those of the selector when the case is the selector's variant,    *)
(* and the exit block, entered from a case block, reads the outputs of     *)
(* that case.  The emitted function is the same in every state after the   *)
(* lowering, so its wiring is examined in the state the lowering leaves.   *)
C24_CaseWiring ==
    (lowered.kind = "cond" /\ lowered.st = "ok") =>
        /\ phase = "emit" =>
              /\ Cardinality(Notes("cond_exit")) = 1
              /\ Cardinality(Notes("case")) = lowered.ncases
              /\ BeginsWithLoads(CondExit.bb, CondExit.regs)
              /\ LastInstr(CondEmit.bb).op = "switch"
              /\ \A i \in 0..(lowered.ncases - 1) :
                    /\ Cardinality({k \in Notes("case") : cx.log[k].i = i}) = 1
                    /\ Len(CondCase(i).regs) = CaseFields(i) + Len(lowered.rest)
                    /\ BeginsWithLoads(CondCase(i).bb, CondCase(i).regs)
                    /\ \A j \in 1..Len(CondCase(i).regs) :
                          CaseWritten(cx.blocks[CondEmit.bb], CondEmit.regs,
                                      SlotsRead(CondCase(i).bb, CondCase(i).regs)[j],
                                      CaseFields(i), j)
                    /\ CaseEnds(i)
                    /\ \A i2 \in 0..(lowered.ncases - 1) \ {i} :
                          /\ CondCase(i2).bb # CondCase(i).bb
                          /\ Range(SlotsRead(CondCase(i2).bb, CondCase(i2).regs))
                                \cap Range(SlotsRead(CondCase(i).bb, CondCase(i).regs)) = {}
        /\ (/\ phase \in {"run", "done"}
            /\ IsCaseBlock(pc.bb)
            /\ pc.ip > Len(CaseAt(pc.bb).regs))
               => /\ SubSeq(RegVals(CaseAt(pc.bb).regs), CaseFields(CaseAt(pc.bb).i) + 1,
                            Len(CaseAt(pc.bb).regs)) = lowered.rest
                  /\ CaseAt(pc.bb).i = lowered.tag
                        => RegVals(CaseAt(pc.bb).regs) = lowered.vals \o lowered.rest
        /\ (/\ phase \in {"run", "done"}
            /\ pc.bb = CondExit.bb
            /\ pc.ip > Len(CondExit.regs))
               => /\ IsCaseBlock(visited[Len(visited) - 1])
                  /\ RegVals(CondExit.regs) = lowered.rest

(* The selector is variant 1 with two fields, one more input follows it:   *)
(* case 1 has run on the two fields and the input and the exit block has   *)
(* read the case's output.                                                 *)
C24_Witness ==
    /\ lowered.kind = "cond" /\ lowered.st = "ok"
    /\ phase = "done"
    /\ lowered.ncases = Len(lowered.rows)
    /\ lowered.tag = 1
    /\ lowered.vals = <<1, 2>> /\ lowered.rest = <<3>>
    /\ visited = <<1, CondCase(1).bb, CondExit.bb>>
    /\ RegVals(CondCase(1).regs) = <<1, 2, 3>>
    /\ RegVals(CondExit.regs) = <<3>>

-----------------------------------------------------------------------------
(* Claims about the position of the builder.  In the harness functions the *)
(* CFG is node 4 with the exit child 6, the Conditional is node 5, and the *)
(* child emitted after either of them is the function's Output, node 3.    *)

EmitOf(n) == cx.log[CHOOSE k \in NotesOf("emit", n) : TRUE]

(* C25: constructing a CfgEmitter, which creates a block for every child   *)
(* of the CFG, leaves the builder in the block in which the CFG node is    *)
(* being emitted; after a CFG has been emitted the builder is in the block *)
(* of the exit child, after a Conditional in the conditional's exit block: *)
(* that is where the next node is emitted and where lowering ends.         *)
C25_BuilderPosition ==
    /\ \A k \in Notes("cfg") :
          /\ cx.log[k].bb = cx.log[k].i
          /\ cx.log[k].bb = EmitOf(cx.log[k].node).bb
          /\ \A a \in Notes("alloc") :
                a < k /\ cx.log[a].bb # cx.log[k].bb /\ cx.log[a].bb > lowered.pre
    /\ (lowered.kind \in {"cfg", "loop"} /\ lowered.st = "ok") =>
          /\ Cardinality(Notes("cfg")) = 1
          /\ EmitOf(3).bb = AllocOf(6).bb
          /\ EmitOf(3).bb # EmitOf(4).bb
          /\ cx.cur = AllocOf(6).bb
    /\ (lowered.kind = "cond" /\ lowered.st = "ok") =>
          /\ EmitOf(3).bb = CondExit.bb
          /\ EmitOf(3).bb # EmitOf(5).bb
          /\ cx.cur = CondExit.bb

(* A CFG whose entry has two edges has been lowered: blocks were created   *)
(* for the entry, the exit and both edges, and the function's Output was   *)
(* emitted in the exit child's block.                                      *)
C25_Witness ==
    /\ lowered.kind = "cfg" /\ lowered.st = "ok"
    /\ lowered.nsucc = 2
    /\ Cardinality(Notes("alloc")) = 2
    /\ Cardinality(Notes("edge")) = 2
    /\ EmitOf(4).bb = 1
    /\ EmitOf(3).bb = AllocOf(6).bb
    /\ Len(cx.blocks) = lowered.pre + 4

C25_WitnessConditional ==
    /\ lowered.kind = "cond" /\ lowered.st = "ok"
    /\ lowered.ncases = 2
    /\ EmitOf(5).bb = 1
    /\ EmitOf(3).bb = CondExit.bb
    /\ cx.cur = CondExit.bb

-----------------------------------------------------------------------------
(* Regions with a second boundary node.  A function body of its Input      *)
(* (node 2), its Output (node 3) and one more child (node 4): a gate, a    *)
(* second Input or a second Output, emitted in any order the Topo walker   *)
(* may yield; and the CFG of LoopCfgHugr whose third child is a block or a *)
(* second ExitBlock.                                                       *)

Extras == {"gate", "Input", "Output"}

DupHugr(extra, topo) ==
    <<FuncBody(<<2, 3, 4>>, topo),
      [Node("Input") EXCEPT !.outs = Usizes(2)],
      [Node("Output") EXCEPT !.ins = Ports(2, 0, 2)],
      CASE extra = "Input" -> [Node("Input") EXCEPT !.outs = Usizes(2)]
        [] extra = "Output" -> [Node("Output") EXCEPT !.ins = Ports(2, 0, 2)]
        [] OTHER -> OpOfKind("gate", <<2, 0>>)>>

ToExit == [succ |-> <<6>>, tag |-> 0]

DupCfgHugr(nf, entry, dup) ==
    [LoopCfgHugr(nf, entry, ToExit) EXCEPT ![7] = IF dup THEN Node("ExitBlock") ELSE @]

TakeHugrs ==
    UNION {{DupHugr(extra, t) : t \in TopoOrders(DupHugr(extra, <<>>))} : extra \in Extras}
        \cup {DupCfgHugr(nf, entry, dup) :
                  nf \in 0..Len(LoopRow), entry \in BlockSpecs, dup \in BOOLEAN}

EmitTake ==
    /\ phase = "emit" /\ lowered.kind = "none"
    /\ \E h \in TakeHugrs, debug_assertions \in BOOLEAN :
       \E r \in {Lower(h, Params(0, 2), debug_assertions)} :
           /\ cx' = r.cx
           /\ lowered' = [lowered EXCEPT !.kind = "take", !.st = r.st, !.err = r.err,
                                         !.vals = Params(0, 2), !.h = h,
                                         !.ret = r.val, !.pre = Len(cx.blocks)]
    /\ UNCHANGED <<phase, pc, env, mem, visited, outsideEmit>>

InitTake == InitFlow

NextTake ==
    \/ EmitTake
    \/ RunEmit
    \/ StepCfg

SpecTake == InitTake /\ [][NextTake]_vars

(* Claims about the boundary of a region *)

ParentOf(n) == CHOOSE p \in 1..Len(lowered.h) : n \in Range(lowered.h[p].children)

(* The notes of the hand-overs in the region of parent p: d = 0 the        *)
(* region's inbound values, d = 1 its outbound promise.                    *)
Takes(p, d) ==
    {k \in Notes("take") : cx.log[k].i = d /\ ParentOf(cx.log[k].node) = p}

Regions == {p \in 1..Len(lowered.h) : lowered.h[p].children # <<>>}

StoresTo(slot) ==
    {bi \in UNION {{<<bb, ip>> : ip \in 1..Len(cx.blocks[bb])} : bb \in 1..Len(cx.blocks)} :
        /\ cx.blocks[bi[1]][bi[2]].op = "store"
        /\ cx.blocks[bi[1]][bi[2]].i = slot}

(* The boundary nodes of the kind among the children of p *)
Boundary(p, op) == {n \in Range(lowered.h[p].children) : lowered.h[n].op = op}

(* The error of the second take the lowering comes to, "" when no region   *)
(* has a second boundary node.                                             *)
SecondTake ==
    CASE Cardinality(Boundary(1, "Input")) > 1 -> "DataflowParentEmitter: Input taken twice"
      [] Cardinality(Boundary(1, "Output")) > 1 -> "DataflowParentEmitter: Output taken twice"
      [] Len(lowered.h) > 4 /\ Cardinality(Boundary(4, "ExitBlock")) > 1 -> "Couldn't take inputs"
      [] OTHER -> ""

(* C26: while a function is lowered, whether lowering succeeds or fails,   *)
(* the inbound values of every region are handed out at most once and its  *)
(* outbound promise is taken at most once, and the mailbox behind the      *)
(* promise of the function body and of the CFG is written at most once;    *)
(* when lowering succeeds each of these has happened exactly once in every *)
(* region; lowering fails with the error of the second take, and with no  *)
(* other outcome, exactly when a region has a second Input, a second       *)
(* Output or a second ExitBlock; and the function body lowered with its    *)
(* one Input and one Output returns the values it was called with.         *)
C26_TakenOnce ==
    lowered.kind = "take" =>
        /\ \A p \in Regions : \A d \in {0, 1} :
              /\ Cardinality(Takes(p, d)) <= 1
              /\ lowered.st = "ok" => Cardinality(Takes(p, d)) = 1
        /\ \A k \in Notes("take") :
              (cx.log[k].i = 1 /\ ParentOf(cx.log[k].node) \in {1, 4}) =>
                  \A j \in 1..Len(cx.log[k].regs) :
                      Cardinality(StoresTo(cx.log[k].regs[j])) = 1
        /\ IF SecondTake = ""
           THEN lowered.st = "ok"
           ELSE lowered.st = "err" /\ lowered.err = SecondTake
        /\ (lowered.st = "ok" /\ phase = "done" /\ Len(lowered.h) = 4)
               => RegVals(lowered.ret) = lowered.vals

(* A second Input emitted before the region's own Input has taken the      *)
(* inbound values; the region's Input then finds them gone.                *)
C26_Witness ==
    /\ lowered.kind = "take"
    /\ Len(lowered.h) = 4
    /\ lowered.h[4].op = "Input"
    /\ lowered.h[1].topo = <<4, 2, 3>>
    /\ lowered.st = "err"
    /\ lowered.err = "DataflowParentEmitter: Input taken twice"
    /\ \E k \in Takes(1, 0) : cx.log[k].node = 4
    /\ Takes(1, 1) = {}

(* The second ExitBlock of a CFG finds the promise taken by the first. *)
C26_WitnessExit ==
    /\ lowered.kind = "take"
    /\ Len(lowered.h) > 4
    /\ lowered.h[7].op = "ExitBlock"
    /\ lowered.st = "err"
    /\ lowered.err = "Couldn't take inputs"
    /\ \E k \in Takes(4, 1) : cx.log[k].node = 6

-----------------------------------------------------------------------------
(* inline_constant_functions pass by pass: the call is entered, and every  *)
(* step is one iteration of `while inline_constant_functions_impl(..)? {}`. *)

MaxPasses == 4

StartInline ==
    /\ hugr.st = "none"
    /\ hugr' = [hugr EXCEPT !.st = "running"]

(* One call of inline_constant_functions_impl: an error leaves the loop    *)
(* through `?`, true repeats it, false ends it.  The passes are counted up *)
(* to MaxPasses.                                                           *)
InlinePass ==
    /\ hugr.st = "running"
    /\ \E r \in {inline_constant_functions_impl(hugr.nodes)} :
          hugr' = [hugr EXCEPT
                     !.nodes = r.cx,
                     !.st = IF r.st # "ok" THEN r.st ELSE IF r.val THEN "running" ELSE "ok",
                     !.err = r.err,
                     !.passes = IF @ < MaxPasses THEN @ + 1 ELSE @]

NextInline ==
    \/ \E value \in ConstValues, loads \in 0..MaxLoads :
           BuildConst(value, loads, 0) /\ UNCHANGED outsideHugr
    \/ \E value \in ConstValues :
           BuildConst(value, 0, 1) /\ UNCHANGED outsideHugr
    \/ StartInline /\ UNCHANGED outsideHugr
    \/ InlinePass /\ UNCHANGED outsideHugr

SpecInline == InitHugr /\ [][NextInline]_vars

(* The loop runs on until it returns: a pass that is due is made. *)
SpecInlineFair == SpecInline /\ WF_vars(InlinePass /\ UNCHANGED outsideHugr)

(* The depth to which function values are nested in a value, and the       *)
(* greatest depth among the function constants of a hugr                   *)
Greatest(S) == CHOOSE x \in S : \A y \in S : y <= x

RECURSIVE ValueDepth(_)
ValueDepth(v) ==
    IF v.k # "Function" THEN 0
    ELSE 1 + Greatest({0} \cup {ValueDepth(v.body[i].value) : i \in 1..Len(v.body)})

Depth(nodes) ==
    Greatest({0} \cup {ValueDepth(nodes[n].value) : n \in FunctionConsts(nodes)})

(* C27: once inline_constant_functions has been entered it returns, Ok or  *)
(* an error.  Every pass that does not fail removes every function         *)
(* constant the hugr held before it and lowers the greatest depth of       *)
(* nesting among the function constants; the loop goes on exactly after a  *)
(* pass that has inserted a function, and ends after a pass that has       *)
(* inserted none and has left every LoadConstant as it was.                *)
C27_Terminates ==
    /\ (hugr.st = "running") ~> (hugr.st \in {"ok", "err"})
    /\ [][hugr.st = "running" =>
            /\ hugr'.st \in {"running", "ok", "err"}
            /\ hugr'.st = "err" => hugr'.nodes = hugr.nodes
            /\ hugr'.st # "err" =>
                  /\ \A n \in FunctionConsts(hugr.nodes) : hugr'.nodes[n] = Removed
                  /\ FunctionConsts(hugr.nodes) # {} => Depth(hugr'.nodes) < Depth(hugr.nodes)
            /\ hugr'.st = "running" =>
                  /\ Len(hugr'.nodes) > Len(hugr.nodes)
                  /\ OpsOf(hugr'.nodes, "LoadConstant") # OpsOf(hugr.nodes, "LoadConstant")
            /\ hugr'.st = "ok" =>
                  /\ Len(hugr'.nodes) = Len(hugr.nodes)
                  /\ OpsOf(hugr'.nodes, "LoadConstant") = OpsOf(hugr.nodes, "LoadConstant")
                  /\ FunctionConsts(hugr'.nodes) = {}]_vars

(* A function constant nested three deep has taken three passes to inline  *)
(* and a fourth to find nothing left.                                      *)
C27_Witness ==
    /\ hugr.st = "ok"
    /\ hugr.built = 1
    /\ hugr.passes = 4
    /\ Cardinality(OpsOf(hugr.nodes, "FuncDefn")) = 3
    /\ Cardinality(OpsOf(hugr.nodes, "LoadFunction")) = 3
    /\ OpsOf(hugr.nodes, "Const") = {}

-----------------------------------------------------------------------------
(* emit/ops.rs: emit_value.  A constant value is an extension constant, a  *)
(* tuple of values or a function value; an extension constant has the kind *)
(* of its Rust type, a payload and the hugr type it reports (get_type).    *)

CustomConst(kind, value, ty) == [kind |-> kind, value |-> value, ty |-> ty]

ExtensionValue(e) == [k |-> "Extension", e |-> e, vs |-> <<>>]

TupleValue(vs) == [k |-> "Tuple", e |-> <<>>, vs |-> vs]

ConstFunction == [k |-> "Function", e |-> <<>>, vs |-> <<>>]

RECURSIVE get_type(_)
get_type(v) ==
    CASE v.k = "Extension" -> v.e.ty
      [] v.k = "Tuple" -> SumType(<<[i \in 1..Len(v.vs) |-> get_type(v.vs[i])]>>)
      [] OTHER -> FuncType(<<>>, <<>>)

(* The closures registered for constants, run in the function context.     *)
(* H1, the prelude's closure for ConstUsize: an integer constant of the    *)
(* mapped type of the constant's own type.  H2, the prelude's closure for  *)
(* ConstExternalSymbol: a value of the mapped type of the constant's own   *)
(* type, loaded from a global.  H3, a closure that builds its value in the *)
(* mapped type of usize whatever the constant's type, as the angle         *)
(* extension's load_constant does.  Any other closure fails.               *)
LoadConstHandler_emit(h, c, konst) ==
    CASE h = "H1" ->
            (CHOOSE y \in {IF ty.st # "ok" THEN Fail(ty)
                           ELSE IF ~is_int_type(ty.val)
                           THEN Err(c, "Failed to get ConstUsize as IntType")
                           ELSE Constant(c, ty.val, konst.value)
               : ty \in {In(c, session_llvm_type(c.exts.types, konst.ty))}} : TRUE)
      [] h = "H2" ->
            (CHOOSE y \in {IF ty.st # "ok" THEN Fail(ty)
                           ELSE Ok(NewReg(c, ty.val), LastReg(NewReg(c, ty.val)))
               : ty \in {In(c, session_llvm_type(c.exts.types, konst.ty))}} : TRUE)
      [] h = "H3" ->
            (CHOOSE y \in {IF ty.st # "ok" THEN Fail(ty)
                           ELSE Constant(c, ty.val, konst.value)
               : ty \in {In(c, llvm_angle_type(c.exts.types))}} : TRUE)
      [] OTHER -> Err(c, "load_constant failed")

(* custom.rs: CodegenExtensionsBuilder::emit_load_constant *)
emit_load_constant_in(c, constmap, konst) ==
    (CHOOSE y \in {IF handler.st # "ok" THEN Err(c, "Unknown CustomConst")
                   ELSE LoadConstHandler_emit(handler.val, c, konst)
       : handler \in {get(constmap, type_id(konst))}} : TRUE)

EnsureFailed == "Condition failed: val.get_type() == context.llvm_type(v.get_type())"

RECURSIVE emit_value_unchecked(_, _, _)
RECURSIVE emit_values_unchecked(_, _, _, _)

(* A variant that returns the handler's value as it is *)
emit_value_unchecked(c, constmap, v) ==
    CASE v.k = "Extension" ->
            (CHOOSE y \in {IF val.st # "ok" THEN Fail(val) ELSE
                (CHOOSE y \in {IF ty.st # "ok" THEN Fail(ty)
                               ELSE Ok(val.cx, val.val)
                   : ty \in {In(val.cx, session_llvm_type(val.cx.exts.types, get_type(v)))}} : TRUE)
               : val \in {emit_load_constant_in(c, constmap, v.e)}} : TRUE)
      [] v.k = "Function" -> Panic(c, "not yet implemented")
      [] v.k = "Tuple" ->
            (CHOOSE y \in {IF llvm_st.st # "ok" THEN Fail(llvm_st) ELSE
                (CHOOSE y \in {IF llvm_vs.st # "ok" THEN Fail(llvm_vs)
                               ELSE build_tag(llvm_vs.cx, llvm_st.val, 0, llvm_vs.val)
                   : llvm_vs \in {emit_values_unchecked(c, constmap, v.vs, <<>>)}} : TRUE)
               : llvm_st \in {In(c, try_new(c.exts.types, get_type(v).rows))}} : TRUE)

emit_values_unchecked(c, constmap, vs, acc) ==
    IF vs = <<>> THEN Ok(c, acc)
    ELSE (CHOOSE y \in {IF r.st # "ok" THEN Fail(r)
                        ELSE emit_values_unchecked(r.cx, constmap, Tail(vs), Append(acc, r.val))
            : r \in {emit_value_unchecked(c, constmap, Head(vs))}} : TRUE)

RECURSIVE emit_value(_, _, _)
RECURSIVE emit_values(_, _, _, _)

emit_value(c, constmap, v) ==
    CASE v.k = "Extension" ->
            (CHOOSE y \in {IF val.st # "ok" THEN Fail(val) ELSE
                (CHOOSE y \in {IF ty.st # "ok" THEN Fail(ty)
                               ELSE IF val.cx.rty[val.val] # ty.val
                               THEN Err(val.cx, EnsureFailed)
                               ELSE Ok(val.cx, val.val)
                   : ty \in {In(val.cx, session_llvm_type(val.cx.exts.types, get_type(v)))}} : TRUE)
               : val \in {emit_load_constant_in(c, constmap, v.e)}} : TRUE)
      [] v.k = "Function" -> Panic(c, "not yet implemented")
      [] v.k = "Tuple" ->
            (CHOOSE y \in {IF llvm_st.st # "ok" THEN Fail(llvm_st) ELSE
                (CHOOSE y \in {IF llvm_vs.st # "ok" THEN Fail(llvm_vs)
                               ELSE build_tag(llvm_vs.cx, llvm_st.val, 0, llvm_vs.val)
                   : llvm_vs \in {emit_values(c, constmap, v.vs, <<>>)}} : TRUE)
               : llvm_st \in {In(c, try_new(c.exts.types, get_type(v).rows))}} : TRUE)

(* vs.iter().map(|x| emit_value(context, x)).collect::<Result<Vec<_>>>() *)
emit_values(c, constmap, vs, acc) ==
    IF vs = <<>> THEN Ok(c, acc)
    ELSE (CHOOSE y \in {IF r.st # "ok" THEN Fail(r)
                        ELSE emit_values(r.cx, constmap, Tail(vs), Append(acc, r.val))
            : r \in {emit_value(c, constmap, Head(vs))}} : TRUE)

(* The registries: any handler, or none, under each key *)
ConstHandlers == {"H0", "H1", "H2", "H3"}

Maps(keys, handlers) ==
    UNION {[d -> handlers] : d \in SUBSET keys}

ExtensionValues ==
    {ExtensionValue(CustomConst(kind, value, CustomType(key))) :
        kind \in ConstKinds, value \in Vals, key \in TypeKeys}

ConstantValues ==
    ExtensionValues \cup {ConstFunction}
        \cup {TupleValue(<<a, b>>) : a \in ExtensionValues,
                                     b \in {x \in ExtensionValues : x.e.value = 1}}

EmitValue ==
    /\ ~loaded.called
    /\ \E v \in ConstantValues, tymap \in Maps(TypeKeys, Handlers \cup {"H0"}),
          constmap \in Maps(ConstKinds, ConstHandlers) :
       \E r \in {emit_value([cx EXCEPT !.exts.types = tymap], constmap, v)} :
           /\ cx' = r.cx
           /\ types' = tymap
           /\ consts' = constmap
           /\ loaded' = [called |-> TRUE, tag |-> 0, args |-> <<v>>, vals |-> <<>>,
                         st |-> r.st, err |-> r.err, val |-> r.val]
    /\ UNCHANGED <<phase, pc, env, mem, visited, ops, reglog, looked,
                   sumVars, rmbVars, emitVars, utilVars>>

InitValue == InitReg

NextValue == EmitValue

SpecValue == InitValue /\ [][NextValue]_vars

(* Claims about constant values *)

(* The mapped type of the graph type of the value emitted *)
MappedType == session_llvm_type(types, get_type(loaded.args[1]))

(* The handler of the constant has built a value: the last register *)
Built == Len(cx.rty) > 0

(* C28: emitting an extension constant whose handler has returned a value  *)
(* succeeds, with that value, when the value's LLVM type is the mapped     *)
(* type of the constant's graph type, and fails with the error of the      *)
(* check when the types differ or with the type mapper's error when the    *)
(* graph type has no mapped type; so a value returned with Ok has exactly  *)
(* the mapped type, and the same holds for a tuple of extension constants. *)
C28_ValueType ==
    loaded.called =>
        /\ loaded.st = "ok" =>
              /\ MappedType.st = "ok"
              /\ cx.rty[loaded.val] = MappedType.val
        /\ (loaded.args[1].k = "Extension" /\ Built) =>
              /\ (MappedType.st = "ok" /\ cx.rty[LastReg(cx)] = MappedType.val)
                    => (loaded.st = "ok" /\ loaded.val = LastReg(cx))
              /\ (MappedType.st = "ok" /\ cx.rty[LastReg(cx)] # MappedType.val)
                    => (loaded.st = "err" /\ loaded.err = EnsureFailed)
              /\ MappedType.st # "ok"
                    => (loaded.st = "err" /\ loaded.err = MappedType.err)
        /\ (loaded.args[1].k = "Extension" /\ ~Built) => loaded.st = "err"

(* The handler has built an i64 for a constant whose type is mapped to     *)
(* double: the check has failed.                                           *)
C28_Witness ==
    /\ loaded.called
    /\ loaded.args[1].k = "Extension"
    /\ Built
    /\ cx.rty[LastReg(cx)] = LeafTy("i64")
    /\ MappedType = Ok(<<>>, LeafTy("double"))
    /\ loaded.st = "err" /\ loaded.err = EnsureFailed

(* The prelude's closure has built the constant in the mapped type *)
C28_WitnessOk ==
    /\ loaded.called
    /\ loaded.args[1].k = "Extension"
    /\ loaded.args[1].e.kind = "ConstUsize"
    /\ "ConstUsize" \in DOMAIN consts
    /\ consts["ConstUsize"] = "H1"
    /\ loaded.st = "ok"
    /\ cx.rty[loaded.val] = LeafTy("i64")
    /\ cx.consts = <<<<loaded.val, loaded.args[1].e.value>>>>

-----------------------------------------------------------------------------
(* custom.rs: CodegenExtensionsBuilder::merge.  A builder holds five maps;  *)
(* builders.self and builders.other are filled by the registration calls,  *)
(* then merge consumes both and builders.val is the builder it returns.    *)

MaxBuilderRegs == 3

(* HashMap::extend: every entry of other is inserted, replacing the entry  *)
(* under an equal key                                                      *)
HashMap_extend(m, other) == other @@ m

(* type_map.rs: TypeMap::set_leaf_hook *)
set_leaf_hook(custom_hooks, hugr_type, hook) == insert(custom_hooks, hugr_type, hook)

set_def_hook_by_key(b, key, hook) ==
    [b EXCEPT !.def_hooks = set_leaf_hook(@, key, hook)]

set_destructor(b, key, hook) ==
    [b EXCEPT !.destructors = set_leaf_hook(@, key, hook)]

(* A variant that also carries the hooks of other over *)
merge_with_hooks(self, other) ==
    [self EXCEPT !.ops = HashMap_extend(@, other.ops),
                 !.types = HashMap_extend(@, other.types),
                 !.consts = HashMap_extend(@, other.consts),
                 !.def_hooks = HashMap_extend(@, other.def_hooks),
                 !.destructors = HashMap_extend(@, other.destructors)]

merge(self, other) ==
    [self EXCEPT !.ops = HashMap_extend(@, other.ops),
                 !.types = HashMap_extend(@, other.types),
                 !.consts = HashMap_extend(@, other.consts)]

Sides == {"self", "other"}

Registering == builders.st = "none" /\ builders.regs < MaxBuilderRegs

Registered(who, b) == builders' = [builders EXCEPT ![who] = b, !.regs = @ + 1]

BuilderAddOp(who, ext, op, handler) ==
    /\ Registering
    /\ Registered(who, [builders[who] EXCEPT !.ops = insert(@, format(ext, op), handler)])

BuilderAddType(who, key, handler) ==
    /\ Registering
    /\ Registered(who, [builders[who] EXCEPT !.types = insert(@, key, handler)])

BuilderAddCustomConst(who, kind, handler) ==
    /\ Registering
    /\ Registered(who, [builders[who] EXCEPT !.consts = insert(@, kind, handler)])

BuilderSetDefHook(who, key, hook) ==
    /\ Registering
    /\ Registered(who, set_def_hook_by_key(builders[who], key, hook))

BuilderSetDestructor(who, key, hook) ==
    /\ Registering
    /\ Registered(who, set_destructor(builders[who], key, hook))

Merge ==
    /\ builders.st = "none"
    /\ builders' = [builders EXCEPT !.st = "ok",
                                    !.val = merge(builders.self, builders.other)]

outsideBuilders == <<irVars, sumVars, regVars, rmbVars, emitVars,
                     mapped, hugr, module, flat, closure>>

InitMerge == InitReg

NextMerge ==
    \/ \E who \in Sides, op \in OpNames, h \in Handlers :
           BuilderAddOp(who, "a", op, h) /\ UNCHANGED outsideBuilders
    \/ \E who \in Sides, key \in TypeKeys, h \in Handlers :
           BuilderAddType(who, key, h) /\ UNCHANGED outsideBuilders
    \/ \E who \in Sides, kind \in ConstKinds, h \in Handlers :
           BuilderAddCustomConst(who, kind, h) /\ UNCHANGED outsideBuilders
    \/ \E who \in Sides, key \in TypeKeys, h \in Handlers :
           BuilderSetDefHook(who, key, h) /\ UNCHANGED outsideBuilders
    \/ \E who \in Sides, key \in TypeKeys, h \in Handlers :
           BuilderSetDestructor(who, key, h) /\ UNCHANGED outsideBuilders
    \/ Merge /\ UNCHANGED outsideBuilders

SpecMerge == InitMerge /\ [][NextMerge]_vars

(* Claims about merge *)

(* C29: the builder returned by merge(self, other) registers, for ops,     *)
(* types and constants, exactly the keys of either builder, with other's   *)
(* handler under a key other registers and self's handler under the rest;  *)
(* its def hooks and its destructors are exactly those of self, so those   *)
(* registered in other are not carried over.                               *)
C29_Merge ==
    builders.st = "ok" =>
        /\ \A f \in {"ops", "types", "consts"} :
              /\ DOMAIN builders.val[f]
                    = DOMAIN builders.self[f] \cup DOMAIN builders.other[f]
              /\ \A k \in DOMAIN builders.val[f] :
                    builders.val[f][k] = IF k \in DOMAIN builders.other[f]
                                         THEN builders.other[f][k]
                                         ELSE builders.self[f][k]
        /\ \A f \in {"def_hooks", "destructors"} :
              /\ DOMAIN builders.val[f] = DOMAIN builders.self[f]
              /\ \A k \in DOMAIN builders.val[f] :
                    builders.val[f][k] = builders.self[f][k]

(* Both builders register the op a.b, with different handlers, and other   *)
(* alone sets a def hook: the merged builder has other's handler for the   *)
(* op and no def hook.                                                     *)
C29_Witness ==
    /\ builders.st = "ok"
    /\ DOMAIN builders.self.ops = {"a.b"}
    /\ DOMAIN builders.other.ops = {"a.b"}
    /\ builders.self.ops["a.b"] = "H1"
    /\ builders.other.ops["a.b"] = "H2"
    /\ DOMAIN builders.other.def_hooks = {<<"a", "b">>}
    /\ DOMAIN builders.val.ops = {"a.b"}
    /\ builders.val.ops["a.b"] = "H2"
    /\ DOMAIN builders.val.def_hooks = {}

(* Self and other set a destructor for the same type: self's is kept *)
C29_WitnessDestructor ==
    /\ builders.st = "ok"
    /\ DOMAIN builders.self.destructors = {<<"a", "b">>}
    /\ DOMAIN builders.other.destructors = {<<"a", "b">>}
    /\ builders.self.destructors[<<"a", "b">>] = "H1"
    /\ builders.other.destructors[<<"a", "b">>] = "H2"
    /\ builders.val.destructors[<<"a", "b">>] = "H1"

-----------------------------------------------------------------------------
(* def_hooks.rs: DefHookClosure.  custom_hooks maps a custom type to the    *)
(* hook stored for it: a closure given to add_leaf_hook, or the closure     *)
(* returned by compose_def_hooks, which captures two hooks.  Calling a hook *)
(* on a value gives the Result, and the leaf closures that ran, in order.   *)

MaxHooks == 3

(* The closures given to add_leaf_hook: one adds one to the value, one      *)
(* doubles it, one adds the port it is called for, one fails.               *)
LeafHooks == {"inc", "dbl", "port", "fail"}

HookPorts == {0, 1}

DefHook(h) == [k |-> "leaf", h |-> h, second_hook |-> <<>>, first_hook |-> <<>>]

Ran(status, err, val, ran) == [st |-> status, err |-> err, val |-> val, ran |-> ran]

LeafHook_call(h, value, node, port) ==
    CASE h = "inc" -> Ran("ok", "", value + 1, <<h>>)
      [] h = "dbl" -> Ran("ok", "", 2 * value, <<h>>)
      [] h = "port" -> Ran("ok", "", value + port, <<h>>)
      [] OTHER -> Ran("err", "hook failed", 0, <<h>>)

compose_def_hooks(second_hook, first_hook) ==
    [k |-> "compose", h |-> "", second_hook |-> second_hook, first_hook |-> first_hook]

(* The call of a stored hook; for the closure of compose_def_hooks:         *)
(*     let value = second_hook(builder, value, node, port)?;                *)
(*     first_hook(builder, value, node, port)                               *)
RECURSIVE DefHook_call(_, _, _, _)
DefHook_call(hook, value, node, port) ==
    IF hook.k = "leaf" THEN LeafHook_call(hook.h, value, node, port)
    ELSE (CHOOSE y \in {IF v.st # "ok" THEN v
                        ELSE (CHOOSE z \in {Ran(w.st, w.err, w.val, v.ran \o w.ran)
                                : w \in {DefHook_call(hook.first_hook, v.val, node, port)}} : TRUE)
            : v \in {DefHook_call(hook.second_hook, value, node, port)}} : TRUE)

(* A variant that replaces the hook stored for the type *)
add_leaf_hook_insert(custom_hooks, hugr_type, hook) ==
    insert(custom_hooks, hugr_type, DefHook(hook))

add_leaf_hook(custom_hooks, hugr_type, hook) ==
    IF hugr_type \in DOMAIN custom_hooks
    THEN insert(custom_hooks, hugr_type,
                compose_def_hooks(custom_hooks[hugr_type], DefHook(hook)))
    ELSE insert(custom_hooks, hugr_type, DefHook(hook))

(* custom_type_hook, and the call of the leaf_hook it returns on a value *)
custom_type_hook(custom_hooks, custom_type, value, node, port) ==
    IF custom_type \notin DOMAIN custom_hooks
    THEN Ran("none", "", 0, <<>>)
    ELSE DefHook_call(custom_hooks[custom_type], value, node, port)

AddLeafHook(hugr_type, hook) ==
    /\ Len(closure.registered) < MaxHooks
    /\ closure' = [closure EXCEPT
                      !.custom_hooks = add_leaf_hook(@, hugr_type, hook),
                      !.registered = Append(@, <<hugr_type, hook>>),
                      !.applied = NoCall]

ApplyHook(custom_type, value, port) ==
    \E r \in {custom_type_hook(closure.custom_hooks, custom_type, value, 1, port)} :
        closure' = [closure EXCEPT !.applied =
                       [called |-> TRUE, tag |-> Len(closure.registered),
                        args |-> <<custom_type, value, port>>, vals |-> r.ran,
                        st |-> r.st, err |-> r.err, val |-> r.val]]

outsideClosure == <<irVars, sumVars, regVars, rmbVars, emitVars,
                    mapped, hugr, module, flat, builders>>

InitHooks == InitReg

NextHooks ==
    \/ \E key \in TypeKeys, h \in LeafHooks :
           AddLeafHook(CustomType(key), h) /\ UNCHANGED outsideClosure
    \/ \E key \in TypeKeys, value \in Vals, port \in HookPorts :
           ApplyHook(CustomType(key), value, port) /\ UNCHANGED outsideClosure

SpecHooks == InitHooks /\ [][NextHooks]_vars

(* Claims about def hooks *)

(* The hooks registered for the type of the last application, before it,   *)
(* in registration order                                                   *)
HooksFor(hugr_type) ==
    LET regs == SelectSeq(SubSeq(closure.registered, 1, closure.applied.tag),
                          LAMBDA r : r[1] = hugr_type)
    IN  [i \in 1..Len(regs) |-> regs[i][2]]

(* The hooks applied one after the other, each to the result of the one    *)
(* before, up to the first that fails                                      *)
RECURSIVE InOrder(_, _, _, _)
InOrder(hs, value, port, ran) ==
    IF hs = <<>> THEN Ran("ok", "", value, ran)
    ELSE IF Head(hs) = "fail" THEN Ran("err", "hook failed", 0, Append(ran, "fail"))
    ELSE InOrder(Tail(hs),
                 CASE Head(hs) = "inc" -> value + 1
                   [] Head(hs) = "dbl" -> 2 * value
                   [] OTHER -> value + port,
                 port, Append(ran, Head(hs)))

(* C30: add_leaf_hook does not overwrite.  After hooks h1, ..., hn were    *)
(* registered in that order for a custom type, the stored hook applies h1  *)
(* to the value and each later hook to the result of the one before; when  *)
(* none of them fails every registered hook runs exactly once, in          *)
(* registration order, and the hooks of other types do not run.  When one  *)
(* fails, the hooks before it have run in order, the later ones do not     *)
(* run, and the call fails.  A type without a hook has none to apply.      *)
C30_HooksCompose ==
    closure.applied.called =>
        LET hs == HooksFor(closure.applied.args[1])
            expected == InOrder(hs, closure.applied.args[2], closure.applied.args[3], <<>>)
        IN  /\ hs = <<>> <=> closure.applied.st = "none"
            /\ hs # <<>> =>
                  /\ closure.applied.st = expected.st
                  /\ closure.applied.val = expected.val
                  /\ closure.applied.vals = expected.ran
                  /\ (\A i \in 1..Len(hs) : hs[i] # "fail") =>
                        /\ closure.applied.st = "ok"
                        /\ closure.applied.vals = hs

(* inc, dbl and inc were registered for one type: the value 1 becomes 5 *)
C30_Witness ==
    /\ closure.applied.called
    /\ closure.applied.tag = 3
    /\ HooksFor(closure.applied.args[1]) = <<"inc", "dbl", "inc">>
    /\ closure.applied.args[2] = 1
    /\ closure.applied.st = "ok"
    /\ closure.applied.val = 5
    /\ closure.applied.vals = <<"inc", "dbl", "inc">>

(* A failing hook between two others: the third does not run *)
C30_WitnessFails ==
    /\ closure.applied.called
    /\ HooksFor(closure.applied.args[1]) = <<"inc", "fail", "dbl">>
    /\ closure.applied.st = "err"
    /\ closure.applied.vals = <<"inc", "fail">>

====
